---------------------------- MODULE Spec2Model ----------------------------
(***************************************************************************)
(* Telegram Keyword Monitor (src/main.py, src/keyword_manager.py).         *)
(*                                                                         *)
(* Python strings are sequences of one-character strings, so that          *)
(* lower(), strip(), startswith(), `in` and int() are computed rather      *)
(* than assumed.  Every specification below shares one set of variables;   *)
(* a specification that does not use a group of variables keeps it fixed.  *)
(***************************************************************************)
EXTENDS Integers, Sequences, FiniteSets, TLC

VARIABLES
    inp,        \* arguments of the pure operation under check
    out,        \* <<>> before the call, <<result>> after it
    message_hashes,     \* self.message_hashes: fingerprint -> time last recorded
    bulk,               \* entries of self.message_hashes under fingerprints that
                        \* do not recur: time recorded -> how many
    now,                \* datetime.now(), in hours
    duplicate_detection_enabled,    \* the three attributes set in __init__
    hash_expiry_hours,
    include_sender_in_hash,
    lastCall,           \* the latest is_duplicate_message call: its argument, the
                        \* entry it found, the time and the value returned
    loop,       \* the event loop: the handlers suspended at a network call
                \* and the number of alert dispatches begun
    config,     \* self.config, the configuration in memory
    file,       \* the content of config.json
    pc,         \* where send_notification stands: the call it awaits
    sn,         \* its local variables
    attempts,   \* the messages given to the transport so far, in order
    log         \* the records written to the log by the failure paths

pureVars == <<inp, out>>
dedupVars == <<message_hashes, bulk, now, lastCall>>
attrVars == <<duplicate_detection_enabled, hash_expiry_hours, include_sender_in_hash>>
cfgVars == <<config, file>>
notifyVars == <<pc, sn, attempts, log>>
vars == <<pureVars, dedupVars, attrVars, cfgVars, notifyVars, loop>>

\* values of the variables a specification does not use
PureUnused == inp = [op |-> "none"] /\ out = <<>>
DedupUnused == message_hashes = <<>> /\ bulk = <<>> /\ now = 0 /\ lastCall = <<>>
AttrUnused ==
    /\ duplicate_detection_enabled = TRUE
    /\ hash_expiry_hours = 24
    /\ include_sender_in_hash = TRUE
CfgUnused == config = <<>> /\ file = <<>>
LoopUnused == loop = [waiting |-> <<>>, begun |-> 0]
NotifyUnused == pc = "idle" /\ sn = <<>> /\ attempts = <<>> /\ log = {}

-----------------------------------------------------------------------------
(* Strings *)

Range(s) == {s[i] : i \in 1..Len(s)}

\* str.lower() on one character (ASCII letters; everything else is kept)
LowerChar(c) ==
    CASE c = "A" -> "a" [] c = "B" -> "b" [] c = "C" -> "c" [] c = "D" -> "d"
      [] c = "E" -> "e" [] c = "F" -> "f" [] c = "G" -> "g" [] c = "H" -> "h"
      [] c = "I" -> "i" [] c = "J" -> "j" [] c = "K" -> "k" [] c = "L" -> "l"
      [] c = "M" -> "m" [] c = "N" -> "n" [] c = "O" -> "o" [] c = "P" -> "p"
      [] c = "Q" -> "q" [] c = "R" -> "r" [] c = "S" -> "s" [] c = "T" -> "t"
      [] c = "U" -> "u" [] c = "V" -> "v" [] c = "W" -> "w" [] c = "X" -> "x"
      [] c = "Y" -> "y" [] c = "Z" -> "z" [] OTHER -> c

\* str.lower()
lower(s) == [i \in 1..Len(s) |-> LowerChar(s[i])]

\* str.startswith(p)
startswith(s, p) == Len(p) <= Len(s) /\ SubSeq(s, 1, Len(p)) = p

\* `k in t` for two strings: k occurs as a contiguous run of t
InStr(k, t) ==
    \E i \in 0..(Len(t) - Len(k)) : SubSeq(t, i + 1, i + Len(k)) = k

\* `x in lst` for a list
InList(x, lst) == \E i \in 1..Len(lst) : lst[i] = x

Digit(d) ==
    CASE d = 0 -> "0" [] d = 1 -> "1" [] d = 2 -> "2" [] d = 3 -> "3"
      [] d = 4 -> "4" [] d = 5 -> "5" [] d = 6 -> "6" [] d = 7 -> "7"
      [] d = 8 -> "8" [] d = 9 -> "9"

RECURSIVE NatStr(_)
NatStr(n) == IF n < 10 THEN <<Digit(n)>> ELSE NatStr(n \div 10) \o <<Digit(n % 10)>>

\* str(n) for an int
str(n) == IF n < 0 THEN <<"-">> \o NatStr(-n) ELSE NatStr(n)

-----------------------------------------------------------------------------
(* Source filter: main.py check_group_filters *)

\* a defect of the whitelist branch: the membership test is inverted
WhitelistAllowsInverted(chat_id, chat_title, whitelist) ==
    \E w \in 1..Len(whitelist) :
        ~ (\/ InList(str(chat_id), whitelist)
           \/ InList(lower(chat_title), [j \in 1..Len(whitelist) |-> lower(whitelist[j])]))

\* the whitelist branch, lines 241-246: any(... for w in whitelist)
WhitelistAllows(chat_id, chat_title, whitelist) ==
    \E w \in 1..Len(whitelist) :
        \/ InList(str(chat_id), whitelist)
        \/ InList(lower(chat_title), [j \in 1..Len(whitelist) |-> lower(whitelist[j])])

\* the blacklist branch, lines 249-254: not any(... for b in blacklist)
BlacklistAllows(chat_id, chat_title, blacklist) ==
    ~ \E b \in 1..Len(blacklist) :
        \/ InList(str(chat_id), blacklist)
        \/ InList(lower(chat_title), [j \in 1..Len(blacklist) |-> lower(blacklist[j])])

\* a defect of the filter: the blacklist is consulted before the whitelist
check_group_filters_blacklist_first(chat_id, chat_title, whitelist, blacklist) ==
    IF blacklist # <<>> THEN BlacklistAllows(chat_id, chat_title, blacklist)
    ELSE IF whitelist # <<>> THEN WhitelistAllows(chat_id, chat_title, whitelist)
    ELSE TRUE

check_group_filters(chat_id, chat_title, whitelist, blacklist) ==
    IF whitelist # <<>> THEN WhitelistAllows(chat_id, chat_title, whitelist)
    ELSE IF blacklist # <<>> THEN BlacklistAllows(chat_id, chat_title, blacklist)
    ELSE TRUE

\* Inputs of the filter
AliceGroup == <<"A","l","i","c","e"," ","G","r","o","u","p">>
BobGroup == <<"B","o","b"," ","G","r","o","u","p">>

MaxListLen == 2

ChatIds == {42, -1001}
ChatTitles == {AliceGroup, BobGroup, lower(AliceGroup), <<"4","2">>}
GroupEntries == {AliceGroup, BobGroup, lower(BobGroup), <<"4","2">>, <<"-","1","0","0","1">>}

SeqsUpTo(S, n) == UNION {[1..k -> S] : k \in 0..n}

GroupLists == SeqsUpTo(GroupEntries, MaxListLen)

FilterInit ==
    /\ inp \in [op : {"check_group_filters"}, chat_id : ChatIds, chat_title : ChatTitles,
                whitelist : GroupLists, blacklist : GroupLists]
    /\ out = <<>>
    /\ DedupUnused /\ AttrUnused /\ CfgUnused /\ NotifyUnused /\ LoopUnused

CheckGroupFilters ==
    /\ inp.op = "check_group_filters"
    /\ out = <<>>
    /\ out' = <<check_group_filters(inp.chat_id, inp.chat_title,
                                     inp.whitelist, inp.blacklist)>>
    /\ UNCHANGED <<inp, dedupVars, attrVars, loop, cfgVars, notifyVars>>

SpecFilter == FilterInit /\ [][CheckGroupFilters]_vars

\* C3: the filter decides by the whitelist alone when it is non-empty (allowed
\* iff the id as a string, or the case-folded name, equals a case-folded
\* whitelist entry), else by the blacklist alone when that is non-empty
\* (allowed iff neither the id string nor the case-folded name is in it),
\* else it allows.
C3_Listed(id, name, lst) ==
    \E i \in 1..Len(lst) : lower(lst[i]) = str(id) \/ lower(lst[i]) = lower(name)

C3_FilterDecisionOrder ==
    (inp.op = "check_group_filters" /\ out # <<>>) =>
        out[1] = (IF Len(inp.whitelist) > 0
                 THEN C3_Listed(inp.chat_id, inp.chat_title, inp.whitelist)
               ELSE IF Len(inp.blacklist) > 0
                 THEN ~ C3_Listed(inp.chat_id, inp.chat_title, inp.blacklist)
               ELSE TRUE)

\* both lists are set, the source is blacklisted but not whitelisted, and
\* the filter has answered
C3_Witness ==
    /\ inp.op = "check_group_filters" /\ out # <<>>
    /\ inp.whitelist # <<>> /\ inp.blacklist # <<>>
    /\ C3_Listed(inp.chat_id, inp.chat_title, inp.blacklist)
    /\ ~ C3_Listed(inp.chat_id, inp.chat_title, inp.whitelist)

C4_Case ==
    /\ inp.op = "check_group_filters" /\ out # <<>>
    /\ inp.whitelist = <<AliceGroup>> /\ inp.blacklist = <<BobGroup>>
    /\ inp.chat_title = BobGroup

\* C4 as stated: with whitelist ["Alice Group"] and blacklist ["Bob Group"], a
\* message from "Bob Group" is allowed.
C4_BobGroupAllowed == C4_Case => out[1] = TRUE

\* C4 as amended: with whitelist ["Alice Group"] and blacklist ["Bob Group"], a
\* message from "Bob Group" is rejected, because a non-empty whitelist admits
\* only the sources it lists; the blacklist is not consulted.
C4_BobGroupRejected == C4_Case => out[1] = FALSE

C4_Witness == C4_Case /\ inp.chat_id = 42

-----------------------------------------------------------------------------
(* Pattern matcher: main.py check_keywords *)

(* Python's re module on the pattern language the keywords below are written
   in: literal characters, groups "(" ... ")", character sets "[" ... "]"
   (without ranges or negation), a leading "(?i)", and a repetition count.
   RepBig is one symbol standing for the text {4294967296}: a repetition
   count of MAXREPEAT or more, for which the parser raises OverflowError,
   which is not an re.error.  Errors are found in scan order, "missing )"
   at the end of the pattern.  A compiled pattern is a sequence of character
   sets, one per position of a match. *)
RepBig == "{4294967296}"

InlineI == <<"(", "?", "i", ")">>

ReOk(icase, items) == [err |-> "none", icase |-> icase, items |-> items]
ReErr(e) == [err |-> e, icase |-> FALSE, items |-> <<>>]

\* index of the "]" closing the set opened at i (the first member may be "]"), 0 if none
SetEnd(p, i) ==
    LET ends == {j \in (i + 2)..Len(p) : p[j] = "]"}
    IN IF ends = {} THEN 0 ELSE CHOOSE j \in ends : \A k \in ends : j <= k

RECURSIVE ReParse(_, _, _, _, _)
ReParse(p, i, depth, icase, items) ==
    IF i > Len(p)
      THEN IF depth > 0 THEN ReErr("re.error") ELSE ReOk(icase, items)
    ELSE IF p[i] = "("
      THEN IF i < Len(p) /\ p[i + 1] = "?"
             THEN IF i = 1 /\ startswith(p, InlineI)
                    THEN ReParse(p, 5, depth, TRUE, items)
                    ELSE ReErr("re.error")
             ELSE ReParse(p, i + 1, depth + 1, icase, items)
    ELSE IF p[i] = ")"
      THEN IF depth = 0 THEN ReErr("re.error")
           ELSE ReParse(p, i + 1, depth - 1, icase, items)
    ELSE IF p[i] = "["
      THEN IF SetEnd(p, i) = 0 THEN ReErr("re.error")
           ELSE ReParse(p, SetEnd(p, i) + 1, depth, icase,
                        Append(items, {p[j] : j \in (i + 1)..(SetEnd(p, i) - 1)}))
    ELSE IF p[i] = RepBig
      THEN ReErr("OverflowError")
    ELSE ReParse(p, i + 1, depth, icase, Append(items, {p[i]}))

re_compile(p) == ReParse(p, 1, 0, FALSE, <<>>)

ReCharMatch(c, set, icase) ==
    IF icase THEN LowerChar(c) \in {LowerChar(x) : x \in set} ELSE c \in set

\* re.search(pattern, text, flags) for a pattern that compiled
ReMatch(c, text, ignorecase) ==
    \E i \in 0..(Len(text) - Len(c.items)) :
        \A j \in 1..Len(c.items) : ReCharMatch(text[i + j], c.items[j], ignorecase \/ c.icase)

\* line 271: the keyword is treated as a regular expression
IsRegexKeyword(keyword) ==
    startswith(keyword, InlineI) \/ "(" \in Range(keyword) \/ "[" \in Range(keyword)

\* one pass of the loop body, lines 269-286: "match", "nomatch", "skip"
\* (re.error caught, line 284), or the name of an exception that leaves the loop
KeywordStep(keyword, message_text, case_sensitive) ==
    IF IsRegexKeyword(keyword)
      THEN LET c == re_compile(keyword)
           IN IF c.err = "re.error" THEN "skip"
              ELSE IF c.err # "none" THEN c.err
              ELSE IF ReMatch(c, message_text, ~ case_sensitive) THEN "match"
              ELSE "nomatch"
      ELSE LET text_to_search == IF case_sensitive THEN message_text ELSE lower(message_text)
               keyword_to_search == IF case_sensitive THEN keyword ELSE lower(keyword)
           IN IF InStr(keyword_to_search, text_to_search) THEN "match" ELSE "nomatch"

Returns(v) == [exc |-> "none", ret |-> v]
Raises(e) == [exc |-> e, ret |-> <<>>]

RECURSIVE KeywordLoop(_, _, _, _, _)
KeywordLoop(keywords, i, message_text, case_sensitive, found_keywords) ==
    IF i > Len(keywords) THEN Returns(found_keywords)
    ELSE LET r == KeywordStep(keywords[i], message_text, case_sensitive)
         IN IF r = "match"
              THEN KeywordLoop(keywords, i + 1, message_text, case_sensitive,
                               Append(found_keywords, keywords[i]))
            ELSE IF r \in {"nomatch", "skip"}
              THEN KeywordLoop(keywords, i + 1, message_text, case_sensitive, found_keywords)
            ELSE Raises(r)

check_keywords(message_text, keywords, case_sensitive) ==
    IF message_text = <<>> THEN Returns(<<>>)
    ELSE KeywordLoop(keywords, 1, message_text, case_sensitive, <<>>)

\* Inputs of the matcher
ILovePython == <<"I"," ","l","o","v","e"," ","p","y","t","h","o","n">>
Python == <<"p","y","t","h","o","n">>
Unclosed == <<"(","u","n","c","l","o","s","e","d">>

MaxKeywords == 2

Texts == {<<>>, ILovePython, <<"P","Y","T","H","O","N">>, <<"p","y","(">>}
KeywordSamples ==
    {Python, <<"P","y","t","h","o","n">>, <<"l","o","v","e"," ">>,
     Unclosed, <<"[","p">>, <<"y",")">>,
     <<"(","?","i",")","L","O","V","E">>, <<"(","[","p","P","]","y",")">>,
     <<"(","a",RepBig,")">>}

KeywordsInit ==
    /\ inp \in [op : {"check_keywords"}, message_text : Texts,
                keywords : SeqsUpTo(KeywordSamples, MaxKeywords),
                case_sensitive : BOOLEAN]
    /\ out = <<>>
    /\ DedupUnused /\ AttrUnused /\ CfgUnused /\ NotifyUnused /\ LoopUnused

CheckKeywords ==
    /\ inp.op = "check_keywords"
    /\ out = <<>>
    /\ out' = <<check_keywords(inp.message_text, inp.keywords, inp.case_sensitive)>>
    /\ UNCHANGED <<inp, dedupVars, attrVars, loop, cfgVars, notifyVars>>

SpecKeywords == KeywordsInit /\ [][CheckKeywords]_vars

\* what the keyword alone does on the text: a pattern that fails counts as no match
C5_MatchesAlone(k, text, cs) ==
    LET r == check_keywords(text, <<k>>, cs) IN r.exc = "none" /\ r.ret = <<k>>

\* C5: a pattern keyword that fails to compile never prevents the other
\* keywords from being matched: check_keywords raises nothing and returns
\* exactly the keywords that match when evaluated alone, a failing pattern
\* counting as a non-match.
C5_InvalidPatternIsolated ==
    (inp.op = "check_keywords" /\ out # <<>>) =>
        /\ out[1].exc = "none"
        /\ Range(out[1].ret) =
             {k \in Range(inp.keywords) :
                 C5_MatchesAlone(k, inp.message_text, inp.case_sensitive)}

\* the part of C5 that the code keeps: a pattern that raises re.error is skipped
C5_ReErrorIsolated ==
    (inp.op = "check_keywords" /\ out # <<>>
       /\ \A i \in 1..Len(inp.keywords) :
            IsRegexKeyword(inp.keywords[i]) => re_compile(inp.keywords[i]).err # "OverflowError") =>
        /\ out[1].exc = "none"
        /\ Range(out[1].ret) =
             {k \in Range(inp.keywords) :
                 C5_MatchesAlone(k, inp.message_text, inp.case_sensitive)}

C5_Example ==
    (inp.op = "check_keywords" /\ out # <<>> /\ inp.keywords = <<Unclosed, Python>>
       /\ inp.message_text = ILovePython) => out[1] = Returns(<<Python>>)

C6_Literal(k) == "(" \notin Range(k) /\ "[" \notin Range(k)

\* k occurs in text at some offset, letter by letter
C6_Occurs(k, text, fold) ==
    \E off \in 0..Len(text) :
        /\ off + Len(k) <= Len(text)
        /\ \A j \in 1..Len(k) :
             IF fold THEN LowerChar(text[off + j]) = LowerChar(k[j]) ELSE text[off + j] = k[j]

\* C6: for a literal keyword and a non-empty text, the keyword is reported iff
\* it occurs in the text (case-folded on both sides unless case_sensitive);
\* an empty text gives the empty result.
C6_LiteralSubstring ==
    (inp.op = "check_keywords" /\ out # <<>>) =>
        /\ inp.message_text = <<>> => out[1] = Returns(<<>>)
        /\ inp.message_text # <<>> =>
             \A i \in 1..Len(inp.keywords) :
                 C6_Literal(inp.keywords[i]) =>
                     (InList(inp.keywords[i], out[1].ret)
                        <=> C6_Occurs(inp.keywords[i], inp.message_text, ~ inp.case_sensitive))

-----------------------------------------------------------------------------
(* Dedup cache: main.py generate_message_hash, is_duplicate_message,
   cleanup_old_hashes *)

IsSpace(c) == c \in {" ", "\t", "\n"}

RECURSIVE lstrip(_)
lstrip(s) == IF s # <<>> /\ IsSpace(Head(s)) THEN lstrip(Tail(s)) ELSE s

RECURSIVE rstrip(_)
rstrip(s) == IF s # <<>> /\ IsSpace(s[Len(s)]) THEN rstrip(SubSeq(s, 1, Len(s) - 1)) ELSE s

\* str.strip()
strip(s) == rstrip(lstrip(s))

\* re.sub(r'\s+', ' ', s)
RECURSIVE CollapseSpaces(_)
CollapseSpaces(s) ==
    IF s = <<>> THEN <<>>
    ELSE IF IsSpace(Head(s)) THEN <<" ">> \o CollapseSpaces(lstrip(s))
    ELSE <<Head(s)>> \o CollapseSpaces(Tail(s))

\* hashlib.md5(x).hexdigest(), taken to be free of collisions
md5(x) == [md5 |-> x]

ShortMsg == <<"s","h","o","r","t","_","m","s","g","_">>
SenderTag == <<"_","s","e","n","d","e","r","_">>

\* a defect of the fingerprint: the text is not lower-cased
generate_message_hash_cased(message_text, sender_id, include_sender) ==
    LET normalized_text == CollapseSpaces(strip(message_text))
    IN md5(IF include_sender /\ sender_id # <<>> /\ sender_id # <<0>>
             THEN normalized_text \o SenderTag \o str(sender_id[1])
             ELSE normalized_text)

\* lines 617-636; sender_id is <<>> for None or <<n>> for the int n, and 0 is
\* falsy like None
generate_message_hash(message_text, sender_id, include_sender) ==
    LET stripped == CollapseSpaces(lower(strip(message_text)))
        normalized_text ==
            IF Len(stripped) < 3
              THEN ShortMsg \o str(Len(stripped)) \o <<"_">> \o stripped
              ELSE stripped
        hash_input ==
            IF include_sender /\ sender_id # <<>> /\ sender_id # <<0>>
              THEN normalized_text \o SenderTag \o str(sender_id[1])
              ELSE normalized_text
    IN md5(hash_input)

\* len(self.message_hashes) beyond which is_duplicate_message sweeps, line 643
CleanupThreshold == 1000

\* stands for any fingerprint that was never seen and will not be seen again
Fresh == md5(<<"another message">>)

Cache(hashes, blk) == [hashes |-> hashes, bulk |-> blk]

RECURSIVE SumUpTo(_, _)
SumUpTo(f, n) == IF n < 0 THEN 0 ELSE (IF n \in DOMAIN f THEN f[n] ELSE 0) + SumUpTo(f, n - 1)

\* len(self.message_hashes)
CacheSize(c, t) == Cardinality(DOMAIN c.hashes) + SumUpTo(c.bulk, t)

Restrict(f, S) == [x \in S |-> f[x]]

\* lines 662-672: entries older than the expiry are removed
cleanup_old_hashes(c, current_time, expiry) ==
    Cache(Restrict(c.hashes, {h \in DOMAIN c.hashes : ~ (current_time - c.hashes[h] > expiry)}),
          [t \in DOMAIN c.bulk |-> IF current_time - t > expiry THEN 0 ELSE c.bulk[t]])

\* a defect of line 658: the fingerprint is not stored
RecordNothing(c, message_hash, current_time) == c

\* line 658: self.message_hashes[message_hash] = current_time
Record(c, message_hash, current_time) ==
    IF message_hash = Fresh
      THEN Cache(c.hashes, [c.bulk EXCEPT ![current_time] = @ + 1])
      ELSE Cache([h \in DOMAIN c.hashes \cup {message_hash} |->
                    IF h = message_hash THEN current_time ELSE c.hashes[h]], c.bulk)

\* a defect of the validity test: an entry exactly `expiry` old still counts
is_duplicate_message_inclusive(c, message_hash, current_time, expiry) ==
    LET swept == IF CacheSize(c, current_time) > CleanupThreshold
                   THEN cleanup_old_hashes(c, current_time, expiry) ELSE c
    IN IF message_hash \in DOMAIN swept.hashes
            /\ current_time - swept.hashes[message_hash] <= expiry
         THEN [ret |-> TRUE, cache |-> swept]
         ELSE [ret |-> FALSE, cache |-> Record(swept, message_hash, current_time)]

\* a defect of the window: a hit records the fingerprint again at the time
\* of the call
is_duplicate_message_sliding(c, message_hash, current_time, expiry) ==
    LET swept == IF CacheSize(c, current_time) > CleanupThreshold
                   THEN cleanup_old_hashes(c, current_time, expiry) ELSE c
    IN [ret |-> message_hash \in DOMAIN swept.hashes
                  /\ current_time - swept.hashes[message_hash] < expiry,
        cache |-> Record(swept, message_hash, current_time)]

\* a defect of the recording: a fingerprint that is not held is reported and
\* left for later
is_duplicate_message_unrecorded(c, message_hash, current_time, expiry) ==
    [ret |-> message_hash \in DOMAIN c.hashes
                /\ current_time - c.hashes[message_hash] < expiry,
     cache |-> c]

\* lines 638-660; the result is the value returned and the cache left behind
is_duplicate_message(c, message_hash, current_time, expiry) ==
    LET swept == IF CacheSize(c, current_time) > CleanupThreshold
                   THEN cleanup_old_hashes(c, current_time, expiry) ELSE c
    IN IF message_hash \in DOMAIN swept.hashes
            /\ current_time - swept.hashes[message_hash] < expiry
         THEN [ret |-> TRUE, cache |-> swept]
         ELSE [ret |-> FALSE, cache |-> Record(swept, message_hash, current_time)]

MaxTime == 3
MaxHours == 2
MaxFresh == 1

Times == 0..MaxTime

TextSamples == {Python, <<" ","P","y","t","h","o","n","\n">>, <<"p","y">>}
SenderIds == {<<>>, <<7>>, <<8>>}
Fingerprints == {generate_message_hash(Python, sd, TRUE) : sd \in {<<>>, <<7>>}}

\* the cache before any message, or after a burst of messages that filled it
DedupInit ==
    /\ now = 0
    /\ message_hashes = <<>>
    /\ \E n \in {0, CleanupThreshold - 1, CleanupThreshold} :
         bulk = [t \in Times |-> IF t = 0 THEN n ELSE 0]
    /\ lastCall = <<>>

Tick ==
    /\ now < MaxTime
    /\ now' = now + 1

\* the cache is touched by is_duplicate_message alone
DedupCall(message_hash) ==
    LET r == is_duplicate_message(Cache(message_hashes, bulk), message_hash, now,
                                  hash_expiry_hours)
    IN /\ message_hash = Fresh =>
              \/ bulk[now] < MaxFresh
              \/ bulk[now] \in (CleanupThreshold - 1)..(CleanupThreshold + MaxFresh - 1)
       /\ message_hashes' = r.cache.hashes
       /\ bulk' = r.cache.bulk
       /\ lastCall' = <<[hash |-> message_hash,
                         found |-> IF message_hash \in DOMAIN message_hashes
                                     THEN <<message_hashes[message_hash]>> ELSE <<>>,
                         at |-> now, ret |-> r.ret]>>

DedupTick ==
    Tick /\ UNCHANGED <<message_hashes, bulk, lastCall, pureVars, attrVars, loop, cfgVars, notifyVars>>

IsDuplicateMessage ==
    \E h \in Fingerprints \cup {Fresh} :
        DedupCall(h) /\ UNCHANGED <<now, pureVars, attrVars, loop, cfgVars, notifyVars>>

SpecDedupInit ==
    /\ DedupInit /\ PureUnused /\ CfgUnused /\ NotifyUnused /\ LoopUnused
    /\ duplicate_detection_enabled = TRUE
    /\ include_sender_in_hash = TRUE
    /\ hash_expiry_hours \in 1..MaxHours

SpecDedup == SpecDedupInit /\ [][DedupTick \/ IsDuplicateMessage]_vars

\* C1: a call for a fingerprint the cache does not hold returns false and
\* records it at the current time; a call made while now - lastSeen < TTL
\* returns true; a call made once the TTL has elapsed since the recorded time
\* returns false and records the fingerprint again at the new time.
C1_DedupWindow ==
    lastCall # <<>> =>
        LET c == lastCall[1]
            within == c.found # <<>> /\ c.at - c.found[1] < hash_expiry_hours
        IN /\ c.ret = within
           /\ ~ within /\ c.hash # Fresh =>
                 c.hash \in DOMAIN message_hashes /\ message_hashes[c.hash] = c.at

\* a fingerprint recorded earlier was seen again after its TTL and re-recorded
C1_Witness ==
    /\ lastCall # <<>>
    /\ lastCall[1].found # <<>>
    /\ lastCall[1].at - lastCall[1].found[1] >= hash_expiry_hours
    /\ lastCall[1].ret = FALSE
    /\ message_hashes[lastCall[1].hash] = lastCall[1].at

\* C19: the cache never exceeds a soft bound: once the number of entries has
\* crossed CleanupThreshold the sweep keeps the size after any call at or
\* below a fixed bound, however many distinct fingerprints arrive within one
\* window of validity.  The sweep comes before the insertion, so the bound
\* is one entry above the threshold.
C19_SoftBound ==
    CacheSize(Cache(message_hashes, bulk), MaxTime) <= CleanupThreshold + 1

\* what the sweep does achieve: after a call made with more than
\* CleanupThreshold entries, no entry older than the window is left
C19_ExpiredSwept ==
    (lastCall # <<>> /\ lastCall[1].at = now
       /\ CacheSize(Cache(message_hashes, bulk), MaxTime) > CleanupThreshold + 1)
        => /\ \A h \in DOMAIN message_hashes : ~ (now - message_hashes[h] > hash_expiry_hours)
           /\ \A t \in DOMAIN bulk : now - t > hash_expiry_hours => bulk[t] = 0

\* a call of is_duplicate_message for a fingerprint that the cache holds
C26_CallOnHeld ==
    /\ now' = now /\ lastCall' # <<>>
    /\ lastCall'[1].hash \in DOMAIN message_hashes

\* C26: the window is fixed: a hit within the window leaves the time recorded
\* for the fingerprint as it was, so in a stream of identical messages, each
\* less than the window after the one before, the first that comes when the
\* time recorded is a full window old is reported as not a duplicate, and it
\* is recorded as the start of the next window
C26_FixedWindow ==
    [][C26_CallOnHeld =>
         LET h == lastCall'[1].hash
         IN IF now - message_hashes[h] < hash_expiry_hours
              THEN lastCall'[1].ret /\ message_hashes'[h] = message_hashes[h]
              ELSE ~ lastCall'[1].ret /\ message_hashes'[h] = now]_vars

\* a hit later than the message that was recorded: the time recorded stays
C26_Witness ==
    /\ lastCall # <<>> /\ lastCall[1].ret
    /\ lastCall[1].at > lastCall[1].found[1]
    /\ message_hashes[lastCall[1].hash] = lastCall[1].found[1]

\* a call of is_duplicate_message that reports a duplicate
C28_Hit == now' = now /\ lastCall' # <<>> /\ lastCall'[1].ret

\* C28: the sweep of expired entries is made on the way to an insertion only:
\* a call that reports a duplicate leaves the whole cache as it was, whatever
\* its size and its other entries
C28_HitLeavesCache ==
    [][C28_Hit => UNCHANGED <<message_hashes, bulk>>]_vars

\* the same of a cache of no more than CleanupThreshold entries
C28_HitLeavesSmallCache ==
    [][(C28_Hit /\ CacheSize(Cache(message_hashes, bulk), MaxTime) <= CleanupThreshold)
          => UNCHANGED <<message_hashes, bulk>>]_vars

-----------------------------------------------------------------------------
(* Notification dispatcher: main.py send_notification, ensure_channel_access,
   validate_notification_target.  One action per network call; a call either
   returns or raises, and a raised exception goes to the handler of the try
   block around the call. *)

Me == <<"m","e">>
AtChan == <<"@","c","h","a","n">>
Chan == <<"c","h","a","n">>
ChatIdTarget == <<"-","1","0","0","1">>
DoubleDash == <<"-","-","5">>

Digits == {"0","1","2","3","4","5","6","7","8","9"}

\* str.isdigit()
isdigit(s) == s # <<>> /\ \A i \in 1..Len(s) : s[i] \in Digits

\* str.lstrip('-')
RECURSIVE lstrip_dash(_)
lstrip_dash(s) == IF s # <<>> /\ Head(s) = "-" THEN lstrip_dash(Tail(s)) ELSE s

DigitVal(c) == CHOOSE d \in 0..9 : Digit(d) = c

RECURSIVE NatVal(_)
NatVal(s) == IF s = <<>> THEN 0 ELSE 10 * NatVal(SubSeq(s, 1, Len(s) - 1)) + DigitVal(s[Len(s)])

\* int(s): one optional sign, then digits; anything else is a ValueError
int(s) ==
    LET signed == s # <<>> /\ Head(s) \in {"-", "+"}
        body == IF signed THEN Tail(s) ELSE s
    IN IF ~ isdigit(body) THEN Raises("ValueError")
       ELSE Returns(IF signed /\ Head(s) = "-" THEN - NatVal(body) ELSE NatVal(body))

\* what a message can be addressed to
StrForm(s) == [form |-> "str", name |-> s, id |-> 0]
IntForm(n) == [form |-> "int", name |-> <<>>, id |-> n]
PeerUser(n) == [form |-> "PeerUser", name |-> <<>>, id |-> n]
Entity(n) == [form |-> "entity", name |-> <<>>, id |-> n]
Invite(hash) == [form |-> "invite", name |-> hash, id |-> 0]

\* me.id, and the id of the channel the invite leads to
SelfId == 7
JoinedChannelId == 55

\* a defect of the candidate list: the form without "@" is tried first
fallback_targets_swapped(notification_target) ==
    IF isdigit(lstrip_dash(notification_target))
      THEN LET n == int(notification_target)
           IN IF n.exc # "none" THEN n ELSE Returns(<<IntForm(n.ret)>>)
    ELSE IF startswith(notification_target, <<"@">>)
      THEN Returns(<<StrForm(Tail(notification_target)), StrForm(notification_target)>>)
    ELSE Returns(<<StrForm(notification_target), StrForm(<<"@">> \o notification_target)>>)

\* lines 454-466
fallback_targets(notification_target) ==
    IF isdigit(lstrip_dash(notification_target))
      THEN LET n == int(notification_target)
           IN IF n.exc # "none" THEN n ELSE Returns(<<IntForm(n.ret)>>)
    ELSE IF startswith(notification_target, <<"@">>)
      THEN Returns(<<StrForm(notification_target), StrForm(Tail(notification_target))>>)
    ELSE Returns(<<StrForm(<<"@">> \o notification_target), StrForm(notification_target)>>)

\* a defect of the exception handling: the final attempt is not guarded
TryOfUnguardedFinal(site) ==
    CASE site \in {"eca_join", "eca_welcome"} -> "join_error"
      [] site = "eca_fallback_msg" -> "eca_outer"
      [] site = "v_entity" -> "validate_outer"
      [] site \in {"v_me", "v_perm"} -> "perm_error"
      [] site \in {"p_saved", "p_text", "p_fbtext"} -> "e1"
      [] site \in {"p_forward", "p_short"} -> "media_error"
      [] site = "f_try" -> "e_fallback"
      [] site \in {"fallback_targets", "f_exhausted", "f_getme", "f_meid"} -> "e2"
      [] site \in {"final_getme", "final_send"} -> "uncaught"

\* the except clause that receives an exception raised at a site
TryOf(site) ==
    CASE site \in {"eca_join", "eca_welcome"} -> "join_error"       \* line 592
      [] site = "eca_fallback_msg" -> "eca_outer"                    \* line 614
      [] site = "v_entity" -> "validate_outer"                       \* line 548
      [] site \in {"v_me", "v_perm"} -> "perm_error"                 \* line 539
      [] site \in {"p_saved", "p_text", "p_fbtext"} -> "e1"          \* line 448
      [] site \in {"p_forward", "p_short"} -> "media_error"          \* line 442
      [] site = "f_try" -> "e_fallback"                              \* line 479
      [] site \in {"fallback_targets", "f_exhausted", "f_getme", "f_meid"} -> "e2"  \* line 495
      [] site \in {"final_getme", "final_send"} -> "e3"              \* line 502

Logged(k, level, msg) == [k EXCEPT !.log = @ \cup {[level |-> level, msg |-> msg]}]

\* a defect of the last handler: the notification is logged at debug level
OnExhaustionDebug(k) ==
    [Logged(Logged(Logged(k, "error", "All notification methods failed"),
                   "debug", "NOTIFICATION"),
            "error", "Target is not accessible")
       EXCEPT !.pc = "returned"]

\* lines 502-507: the composed notification goes to the log
OnExhaustion(k) ==
    [Logged(Logged(Logged(k, "error", "All notification methods failed"),
                   "info", "NOTIFICATION"),
            "error", "Target is not accessible")
       EXCEPT !.pc = "returned"]

\* a defect of the final attempt: it addresses 'me' again
FinalSelfFormMe(me_id) == StrForm(Me)

\* line 500
FinalSelfForm(me_id) == PeerUser(me_id)

\* lines 495-499: the last handler but one starts the final attempt
OnFallbackFailed(k) ==
    [Logged(k, "warning", "All fallback methods failed") EXCEPT !.pc = "final_getme"]

\* lines 448-468 and 485-487: the handler of a failed primary attempt
OnPrimaryFailed(k) ==
    LET w == Logged(k, "warning", "Failed to send")
    IN IF k.sn.notification_target # Me
         THEN LET ft == fallback_targets(k.sn.notification_target)
              IN IF ft.exc # "none"
                   THEN IF TryOf("fallback_targets") = "e2" THEN OnFallbackFailed(w)
                        ELSE [w EXCEPT !.pc = "raised"]
                   ELSE [w EXCEPT !.pc = "f_try", !.sn.fallback_targets = ft.ret, !.sn.i = 1]
         ELSE [w EXCEPT !.pc = "f_getme"]

\* the step of the dispatcher after a call at `site` raised
Raised(k, site) ==
    LET h == TryOf(site)
    IN CASE h = "e1" -> OnPrimaryFailed(k)
         [] h = "media_error" -> [Logged(k, "warning", "Media forward failed") EXCEPT !.pc = "p_fbtext"]
         [] h = "e_fallback" ->
              IF k.sn.i < Len(k.sn.fallback_targets)
                THEN [k EXCEPT !.sn.i = @ + 1]
              ELSE IF TryOf("f_exhausted") = "e2" THEN OnFallbackFailed(k)
              ELSE [k EXCEPT !.pc = "raised"]
         [] h = "e2" -> OnFallbackFailed(k)
         [] h = "e3" -> OnExhaustion(k)
         [] OTHER -> [k EXCEPT !.pc = "raised"]

\* the primary attempt, lines 418-446: the call that follows each call
AfterText(l) == IF l.has_media /\ l.forward_media THEN "p_forward" ELSE "returned"

AfterSaved(l) ==
    IF l.notification_mode # "saved_messages_only"
      THEN IF ~ (l.has_media /\ l.media_only_forward) THEN "p_text" ELSE AfterText(l)
      ELSE "returned"

PrimaryFirst(l) ==
    IF l.notification_mode \in {"both", "saved_messages_only"} THEN "p_saved" ELSE AfterSaved(l)

\* a defect of the dispatcher: the alert is given up when the validation
\* returned false
PrimaryStartIfValid(k, cfg, valid) ==
    LET l == [k.sn EXCEPT !.forward_media = cfg.forward_media,
                          !.media_only_forward = cfg.media_only_forward,
                          !.valid = valid]
    IN [k EXCEPT !.sn = l, !.pc = IF valid THEN PrimaryFirst(l) ELSE "returned"]

\* lines 414-416, read once validate_notification_target has returned
PrimaryStart(k, cfg, valid) ==
    LET l == [k.sn EXCEPT !.forward_media = cfg.forward_media,
                          !.media_only_forward = cfg.media_only_forward,
                          !.valid = valid]
    IN [k EXCEPT !.sn = l, !.pc = PrimaryFirst(l)]

\* lines 402-411, once ensure_channel_access has returned: the target and the
\* mode are read, and validate_notification_target starts (no call for 'me')
Compose(k, cfg) ==
    LET c == [k EXCEPT !.sn.notification_target = cfg.notification_target,
                       !.sn.notification_mode = cfg.notification_mode]
    IN IF cfg.notification_target = Me THEN PrimaryStart(c, cfg, TRUE)
       ELSE [c EXCEPT !.pc = "v_entity"]

K == [pc |-> pc, sn |-> sn, log |-> log]

Goto(k) == pc' = k.pc /\ sn' = k.sn /\ log' = k.log

Transport(stage, what, to, ok) ==
    attempts' = Append(attempts, [stage |-> stage, what |-> what, to |-> to, ok |-> ok])

NotifyFrame == UNCHANGED <<pureVars, dedupVars, attrVars, loop>>

\* the configuration with the defaults the code's config.get calls name
DefaultConfig ==
    [notification_target |-> Me, needs_join |-> FALSE, invite_hash |-> <<>>,
     notification_mode |-> "channel_only", forward_media |-> TRUE,
     media_only_forward |-> TRUE, case_sensitive |-> FALSE,
     enabled |-> TRUE, expiry_hours |-> 24, include_sender |-> TRUE,
     keywords |-> <<>>, whitelist |-> <<>>, blacklist |-> <<>>]

InviteToken == <<"A","b","C">>

Targets == {Me, AtChan, Chan, ChatIdTarget, DoubleDash}
Modes == {"channel_only", "both", "saved_messages_only"}

NotifyConfigs ==
    {[DefaultConfig EXCEPT !.notification_target = t, !.needs_join = j, !.invite_hash = h,
                           !.notification_mode = m, !.forward_media = f,
                           !.media_only_forward = o] :
        t \in Targets, j \in BOOLEAN, h \in {<<>>, InviteToken}, m \in Modes,
        f \in BOOLEAN, o \in BOOLEAN}

NoLocals ==
    [has_media |-> FALSE, notification_target |-> <<>>, notification_mode |-> "",
     forward_media |-> FALSE, media_only_forward |-> FALSE, valid |-> TRUE,
     fallback_targets |-> <<>>, i |-> 0]

NotifyInit ==
    /\ config \in NotifyConfigs
    /\ file = config
    /\ pc = "idle" /\ sn = NoLocals /\ attempts = <<>> /\ log = {}

\* a defect of the bootstrap: the change is made in memory and not written
PersistMemoryOnly(target) ==
    /\ config' = [config EXCEPT !.notification_target = target, !.needs_join = FALSE]
    /\ file' = file

\* lines 573-578 and 596-600: the target is replaced, the flag cleared, and
\* self.config written to config.json
Persist(target) ==
    /\ config' = [config EXCEPT !.notification_target = target, !.needs_join = FALSE]
    /\ file' = config'

\* send_notification is entered; ensure_channel_access decides whether to join
SendNotification ==
    /\ pc = "idle"
    /\ \E has_media \in BOOLEAN :
         LET k == [K EXCEPT !.sn = [NoLocals EXCEPT !.has_media = has_media]]
         IN IF config.needs_join /\ config.invite_hash # <<>>
                 /\ config.notification_target # Me
              THEN Goto([k EXCEPT !.pc = "eca_join"])
              ELSE Goto(Compose(k, config))
    /\ UNCHANGED <<attempts, cfgVars>> /\ NotifyFrame

\* line 566: ImportChatInviteRequest
EcaJoin ==
    /\ pc = "eca_join"
    /\ \/ /\ Persist(<<"-","1","0","0">> \o str(JoinedChannelId))
          /\ Goto([K EXCEPT !.pc = "eca_welcome"])
          /\ Transport("bootstrap", "join", Invite(config.invite_hash), TRUE)
       \/ /\ Goto(Compose(K, config))           \* result.chats is empty
          /\ UNCHANGED cfgVars
          /\ Transport("bootstrap", "join", Invite(config.invite_hash), TRUE)
       \/ /\ Persist(Me)                         \* the request raised
          /\ Goto([Logged(K, "error", "Failed to join private channel")
                     EXCEPT !.pc = "eca_fallback_msg"])
          /\ Transport("bootstrap", "join", Invite(config.invite_hash), FALSE)
    /\ NotifyFrame

\* line 590: the welcome message, inside the same try as the join
EcaWelcome ==
    /\ pc = "eca_welcome"
    /\ \E ok \in BOOLEAN :
         /\ Transport("bootstrap", "welcome", Entity(JoinedChannelId), ok)
         /\ IF ok
              THEN Goto(Compose(K, config)) /\ UNCHANGED cfgVars
              ELSE /\ Persist(Me)
                   /\ Goto([Logged(K, "error", "Failed to join private channel")
                              EXCEPT !.pc = "eca_fallback_msg"])
    /\ NotifyFrame

\* line 612: the fallback notice; if it raises, line 614 logs and returns
EcaFallbackMsg ==
    /\ pc = "eca_fallback_msg"
    /\ \E ok \in BOOLEAN :
         /\ Transport("bootstrap", "fallback_msg", StrForm(Me), ok)
         /\ Goto(Compose(IF ok THEN K ELSE Logged(K, "error", "Error in ensure_channel_access"),
                         config))
    /\ UNCHANGED cfgVars /\ NotifyFrame

\* line 521: get_entity; a user has neither `megagroup` nor `broadcast`
ValidateGetEntity ==
    /\ pc = "v_entity"
    /\ \/ Goto(PrimaryStart(Logged(K, "error", "Failed to validate target"), config, TRUE))
       \/ Goto(PrimaryStart(K, config, TRUE))
       \/ Goto([K EXCEPT !.pc = "v_me"])
    /\ UNCHANGED <<attempts, cfgVars>> /\ NotifyFrame

\* line 532: get_me
ValidateGetMe ==
    /\ pc = "v_me"
    /\ \/ Goto([K EXCEPT !.pc = "v_perm"])
       \/ Goto(PrimaryStart(Logged(K, "warning", "Could not check permissions"), config, TRUE))
    /\ UNCHANGED <<attempts, cfgVars>> /\ NotifyFrame

\* lines 533-538: get_permissions
ValidateGetPermissions ==
    /\ pc = "v_perm"
    /\ \/ Goto(PrimaryStart(K, config, TRUE))
       \/ Goto(PrimaryStart(Logged(K, "warning", "No send permission"), config, FALSE))
       \/ Goto(PrimaryStart(Logged(K, "warning", "Could not check permissions"), config, TRUE))
    /\ UNCHANGED <<attempts, cfgVars>> /\ NotifyFrame

\* a send or forward at `site`: it returns and the dispatcher goes to `next`,
\* or it raises
Call(site, stage, what, to, next) ==
    /\ pc = site
    /\ \E ok \in BOOLEAN :
         /\ Transport(stage, what, to, ok)
         /\ IF ok THEN Goto([K EXCEPT !.pc = next]) ELSE Goto(Raised(K, site))
    /\ UNCHANGED cfgVars /\ NotifyFrame

\* get_me at `site`
GetMe(site, next) ==
    /\ pc = site
    /\ \/ Goto([K EXCEPT !.pc = next])
       \/ Goto(Raised(K, site))
    /\ UNCHANGED <<attempts, cfgVars>> /\ NotifyFrame

AlertKind == IF sn.has_media THEN "forward" ELSE "notification"

\* line 420
PrimarySaved == Call("p_saved", "saved", "notification", StrForm(Me), AfterSaved(sn))

\* line 427
PrimaryText ==
    Call("p_text", "primary", "notification", StrForm(sn.notification_target), AfterText(sn))

\* line 433
PrimaryForward ==
    Call("p_forward", "primary", "forward", StrForm(sn.notification_target),
         IF sn.media_only_forward THEN "p_short" ELSE "returned")

\* line 439
PrimaryShort ==
    Call("p_short", "primary", "short", StrForm(sn.notification_target), "returned")

\* line 445
PrimaryFallbackText ==
    Call("p_fbtext", "primary", "notification", StrForm(sn.notification_target), "returned")

\* lines 469-481
FallbackTry ==
    /\ pc = "f_try"
    /\ Call("f_try", "fallback", AlertKind, sn.fallback_targets[sn.i], "returned")

\* line 487
FallbackGetMe == GetMe("f_getme", "f_meid")

\* lines 488-493
FallbackMeId == Call("f_meid", "fallback_self", AlertKind, IntForm(SelfId), "returned")

\* line 499
FinalGetMe == GetMe("final_getme", "final_send")

\* line 500
FinalSend == Call("final_send", "final", "notification", FinalSelfForm(SelfId), "returned")

NotifyNext ==
    \/ SendNotification
    \/ EcaJoin \/ EcaWelcome \/ EcaFallbackMsg
    \/ ValidateGetEntity \/ ValidateGetMe \/ ValidateGetPermissions
    \/ PrimarySaved \/ PrimaryText \/ PrimaryForward \/ PrimaryShort \/ PrimaryFallbackText
    \/ FallbackTry \/ FallbackGetMe \/ FallbackMeId
    \/ FinalGetMe \/ FinalSend

SpecNotifyInit == NotifyInit /\ PureUnused /\ DedupUnused /\ AttrUnused /\ LoopUnused

SpecNotify == SpecNotifyInit /\ [][NotifyNext]_vars

\* what the claims about the dispatcher read off the transport
Over == pc \in {"returned", "raised"}
IsAlert(a) == a.stage # "bootstrap"
SelfForms == {StrForm(Me), IntForm(SelfId), PeerUser(SelfId)}
AlertIdx == {i \in 1..Len(attempts) : IsAlert(attempts[i])}
StageIdx(stage) == {i \in 1..Len(attempts) : attempts[i].stage = stage}
\* the primary attempt raised: a send of the composed text in it failed
PrimaryFailed ==
    \E i \in StageIdx("saved") \cup StageIdx("primary") :
        attempts[i].what = "notification" /\ ~ attempts[i].ok
IsFallback(a) == a.stage = "fallback"
FallbackAttempts == SelectSeq(attempts, IsFallback)

C7_Case ==
    /\ Over
    /\ \E i \in StageIdx("primary") : \E j \in AlertIdx :
          /\ attempts[i].to = StrForm(AtChan) /\ ~ attempts[i].ok
          /\ i < j /\ attempts[j].to \in SelfForms /\ attempts[j].ok

\* C7: no exception leaves send_notification, whichever transport calls fail,
\* and the call always completes; when the send to the configured @channel
\* raised and a later self-addressed attempt succeeded, the call has returned
\* and that delivery is the last thing it did.
C7_NoExceptionEscapes ==
    /\ pc # "raised"
    /\ pc \notin {"idle", "returned"} => ENABLED NotifyNext
    /\ C7_Case => pc = "returned" /\ attempts[Len(attempts)].ok
                    /\ attempts[Len(attempts)].to \in SelfForms

C7_Witness == C7_Case /\ pc = "returned" /\ sn.notification_target = AtChan

\* the claim's candidate forms of a target
C8_PurelyNumeric(t) ==
    \E k \in 0..(Len(t) - 1) :
        /\ \A i \in 1..k : t[i] = "-"
        /\ \A i \in (k + 1)..Len(t) : t[i] \in Digits

\* the integer a purely numeric target denotes: digits with at most one sign
C8_Integers(t) ==
    LET k == CHOOSE k \in 0..(Len(t) - 1) :
                 t[k + 1] \in Digits /\ \A i \in 1..k : t[i] = "-"
        v == NatVal(SubSeq(t, k + 1, Len(t)))
    IN IF k = 0 THEN {v} ELSE IF k = 1 THEN {0 - v} ELSE {}

C8_Candidates(t) ==
    IF C8_PurelyNumeric(t)
      THEN IF C8_Integers(t) = {} THEN <<>>
           ELSE <<IntForm(CHOOSE n \in C8_Integers(t) : TRUE)>>
    ELSE IF t # <<>> /\ t[1] = "@"
      THEN <<StrForm(t), StrForm(SubSeq(t, 2, Len(t)))>>
    ELSE <<StrForm(<<"@">> \o t), StrForm(t)>>

\* C8: after a failed primary attempt against a non-self target the fallback
\* attempts address the candidate forms of the target (numeric: the integer;
\* @name: @name then name; name: @name then name), in that order, each at
\* most once, none after the first that succeeds, and all of them when none
\* succeeds.
C8_CandidateOrder ==
    (pc # "idle" /\ sn.notification_target \notin {<<>>, Me}) =>
        LET fb == FallbackAttempts
            cand == C8_Candidates(sn.notification_target)
        IN /\ Len(fb) <= Len(cand)
           /\ \A i \in 1..Len(fb) : fb[i].to = cand[i]
           /\ \A i \in 1..(Len(fb) - 1) : ~ fb[i].ok
           /\ fb # <<>> => PrimaryFailed
           /\ (fb # <<>> /\ fb[Len(fb)].ok) =>
                 pc = "returned" /\ attempts[Len(attempts)] = fb[Len(fb)]
           /\ (PrimaryFailed /\ (\A i \in 1..Len(fb) : ~ fb[i].ok)
                 /\ pc \in {"final_getme", "final_send", "returned", "raised"}) =>
                 Len(fb) = Len(cand)

\* the target is @chan, the primary send failed, "@chan" was tried again and
\* failed, and "chan" succeeded
C8_Witness ==
    /\ pc = "returned" /\ sn.notification_target = AtChan /\ PrimaryFailed
    /\ Len(FallbackAttempts) = 2
    /\ FallbackAttempts[1].to = StrForm(AtChan) /\ ~ FallbackAttempts[1].ok
    /\ FallbackAttempts[2].to = StrForm(Chan) /\ FallbackAttempts[2].ok

\* the attempts made after the last fallback candidate
C9_LastCandidate == CHOOSE i \in StageIdx("fallback") : \A j \in StageIdx("fallback") : j <= i
C9_Exhausted ==
    /\ pc # "idle" /\ sn.notification_target \notin {<<>>, Me}
    /\ PrimaryFailed
    /\ StageIdx("fallback") # {}
    /\ \A i \in StageIdx("fallback") : ~ attempts[i].ok
    /\ Len(FallbackAttempts) = Len(C8_Candidates(sn.notification_target))
C9_Rest == SubSeq(attempts, C9_LastCandidate + 1, Len(attempts))

\* C9 as stated: once every fallback candidate of a non-self target has
\* failed, the next attempt addresses the self-target ("me"), and the
\* low-level self form is tried only after that attempt failed.
C9_SelfTargetThenLowLevel ==
    (C9_Exhausted /\ C9_Rest # <<>>) =>
        /\ C9_Rest[1].to = StrForm(Me)
        /\ \A i \in 1..Len(C9_Rest) :
              C9_Rest[i].to = PeerUser(SelfId) => (i > 1 /\ ~ C9_Rest[i - 1].ok)

\* C9 as amended: once every fallback candidate of a non-self target has
\* failed, no attempt addresses the self-target "me"; the one attempt left is
\* the composed text to the low-level self form, and the dispatch ends at the
\* first attempt of this chain that succeeds.
C9_LowLevelOnly ==
    /\ C9_Exhausted =>
          /\ Len(C9_Rest) <= 1
          /\ C9_Rest # <<>> =>
                /\ C9_Rest[1].to = PeerUser(SelfId)
                /\ C9_Rest[1].what = "notification" /\ C9_Rest[1].stage = "final"
          /\ pc = "returned" =>
                (C9_Rest # <<>> \/ [level |-> "info", msg |-> "NOTIFICATION"] \in log)
    /\ \A i \in 1..Len(attempts) :
          (attempts[i].stage \in {"fallback", "fallback_self", "final"} /\ attempts[i].ok) =>
              i = Len(attempts) /\ pc = "returned"

\* both candidates of @chan failed and the final attempt reached the self chat
C9_Witness ==
    /\ C9_Exhausted /\ pc = "returned" /\ sn.notification_target = AtChan
    /\ Len(C9_Rest) = 1 /\ C9_Rest[1].ok

C10_AllFailed ==
    /\ Over
    /\ PrimaryFailed
    /\ \A i \in AlertIdx : ~ attempts[i].ok

\* C10: when every delivery attempt of an alert has failed, the composed
\* notification is in the log at info level and send_notification has returned.
C10_ExhaustionLogged ==
    C10_AllFailed =>
        /\ pc = "returned"
        /\ [level |-> "info", msg |-> "NOTIFICATION"] \in log

\* the primary send, both candidates and the final send have all failed
C10_Witness ==
    /\ C10_AllFailed
    /\ StageIdx("fallback") # {}
    /\ StageIdx("final") # {}

-----------------------------------------------------------------------------
(* The monitor: main.py message_handler and handle_command, with the
   /duplicates command of keyword_manager.py.  Handlers run one at a time; an
   event is taken when no handler is in progress, and inp, out, lastCall,
   attempts and log hold what the handler in progress was given and has done.
   The clock is read by is_duplicate_message alone, so it advances between
   handlers. *)

\* str.split(): the runs of non-space characters
RECURSIVE split(_)
split(s) ==
    LET t == lstrip(s)
    IN IF t = <<>> THEN <<>>
       ELSE LET n == CHOOSE n \in 1..(Len(t) + 1) :
                         /\ n = Len(t) + 1 \/ IsSpace(t[n])
                         /\ \A i \in 1..(n - 1) : ~ IsSpace(t[i])
            IN <<SubSeq(t, 1, n - 1)>> \o split(SubSeq(t, n, Len(t)))

\* ' '.join(args)
RECURSIVE join(_)
join(args) ==
    IF args = <<>> THEN <<>>
    ELSE IF Len(args) = 1 THEN args[1]
    ELSE args[1] \o <<" ">> \o join(Tail(args))

\* list.pop(index), list.remove(x): the list without its element at i (from 1)
RemoveAt(q, i) == SubSeq(q, 1, i - 1) \o SubSeq(q, i + 1, Len(q))
IndexOf(x, lst) == CHOOSE i \in 1..Len(lst) : lst[i] = x /\ \A j \in 1..(i - 1) : lst[j] # x

\* The command table, keyword_manager.py lines 19-35
KeywordsCmd == <<"/","k","e","y","w","o","r","d","s">>
AddCmd == <<"/","a","d","d">>
RemoveCmd == <<"/","r","e","m","o","v","e">>
ClearCmd == <<"/","c","l","e","a","r">>
StatusCmd == <<"/","s","t","a","t","u","s">>
GroupsCmd == <<"/","g","r","o","u","p","s">>
WhitelistCmd == <<"/","w","h","i","t","e","l","i","s","t">>
BlacklistCmd == <<"/","b","l","a","c","k","l","i","s","t">>
Duplicates == <<"/","d","u","p","l","i","c","a","t","e","s">>
TargetCmd == <<"/","t","a","r","g","e","t">>
Help == <<"/","h","e","l","p">>
On == <<"o","n">>
Off == <<"o","f","f">>
Hours == <<"h","o","u","r","s">>
Sender == <<"s","e","n","d","e","r">>
Debug == <<"d","e","b","u","g">>
Add == <<"a","d","d">>
Remove == <<"r","e","m","o","v","e">>
List == <<"l","i","s","t">>
Clear == <<"c","l","e","a","r">>
Set == <<"s","e","t">>
Test == <<"t","e","s","t">>
Check == <<"c","h","e","c","k">>
Status == <<"s","t","a","t","u","s">>

\* A response: the glyph it begins with, what it says, and the state it shows.
\* A handler returns the content it saved to config.json (or the content it
\* loaded, when it saved nothing) and its response.
Resp(glyph, msg, shown) == [glyph |-> glyph, msg |-> msg, shown |-> shown]
Reply(f, response) == [file |-> f, response |-> response]
Saved(f, msg) == Reply(f, Resp("check", msg, <<>>))
Refused(f, msg) == Reply(f, Resp("cross", msg, <<>>))
Throws(f, exc) == Reply(f, Resp("raised", exc, <<>>))

\* a defect of the listing: a keyword is marked as a pattern for its "[" only
ListedAsRegexForSet(keyword) == "[" \in Range(keyword)

\* line 106
ValidatedAsRegex(keyword) ==
    startswith(keyword, InlineI) \/ "(" \in Range(keyword) \/ "[" \in Range(keyword)

\* line 87
ListedAsRegex(keyword) ==
    startswith(keyword, InlineI) \/ "(" \in Range(keyword) \/ "[" \in Range(keyword)

\* list_keywords, lines 77-94
list_keywords(f, args) ==
    IF f.keywords = <<>> THEN Reply(f, Resp("memo", "no keywords", <<>>))
    ELSE Reply(f, Resp("memo", "keywords",
                       [i \in 1..Len(f.keywords) |->
                           [keyword |-> f.keywords[i],
                            regex |-> ListedAsRegex(f.keywords[i])]]))

\* a defect of add_keyword: no test for a keyword that is already listed
add_keyword_unchecked(f, args) ==
    IF args = <<>> THEN Refused(f, "keyword missing")
    ELSE Saved([f EXCEPT !.keywords = Append(@, join(args))], "keyword added")

\* a defect of add_keyword: a pattern is stored without being compiled
add_keyword_unvalidated(f, args) ==
    IF args = <<>> THEN Refused(f, "keyword missing")
    ELSE IF InList(join(args), f.keywords)
      THEN Reply(f, Resp("warning", "keyword exists", <<>>))
    ELSE Saved([f EXCEPT !.keywords = Append(@, join(args))], "keyword added")

\* add_keyword, lines 96-120
add_keyword(f, args) ==
    IF args = <<>> THEN Refused(f, "keyword missing")
    ELSE LET keyword == join(args)
             c == re_compile(keyword)
         IN IF ValidatedAsRegex(keyword) /\ c.err = "re.error"
              THEN Refused(f, "invalid regex")
            ELSE IF ValidatedAsRegex(keyword) /\ c.err # "none" THEN Throws(f, c.err)
            ELSE IF InList(keyword, f.keywords)
              THEN Reply(f, Resp("warning", "keyword exists", <<>>))
            ELSE Saved([f EXCEPT !.keywords = Append(@, keyword)], "keyword added")

\* remove_keyword, lines 122-152
remove_keyword(f, args) ==
    IF args = <<>> THEN Refused(f, "number or keyword missing")
    ELSE IF f.keywords = <<>> THEN Refused(f, "no keywords")
    ELSE LET n == int(args[1])
             keyword_to_remove == join(args)
         IN IF n.exc = "none"
              THEN IF 0 <= n.ret - 1 /\ n.ret - 1 < Len(f.keywords)
                     THEN Saved([f EXCEPT !.keywords = RemoveAt(@, n.ret)], "keyword removed")
                     ELSE Refused(f, "invalid number")
            ELSE IF InList(keyword_to_remove, f.keywords)
              THEN Saved([f EXCEPT !.keywords = RemoveAt(@, IndexOf(keyword_to_remove, @))],
                         "keyword removed")
            ELSE Refused(f, "keyword not found")

\* clear_keywords, lines 154-165
clear_keywords(f, args) ==
    IF Len(f.keywords) = 0 THEN Refused(f, "no keywords")
    ELSE Saved([f EXCEPT !.keywords = <<>>], "keywords cleared")

\* show_status, lines 167-207
show_status(f, args) ==
    Reply(f, Resp("chart", "status",
                  [keywords |-> Len(f.keywords), target |-> f.notification_target,
                   whitelist |-> Len(f.whitelist), blacklist |-> Len(f.blacklist),
                   enabled |-> f.enabled]))

\* manage_groups, lines 209-225
manage_groups(f, args) == Reply(f, Resp("clipboard", "groups help", <<>>))

\* _manage_group_list, lines 235-308, on the list `group_list` of the file
manage_group_list(group_list, args) ==
    IF args = <<>> THEN Refused(group_list, "action missing")
    ELSE LET action == lower(args[1])
         IN IF action = List
              THEN IF group_list = <<>> THEN Reply(group_list, Resp("memo", "list empty", <<>>))
                   ELSE Reply(group_list, Resp("memo", "list", group_list))
            ELSE IF action = Add
              THEN IF Len(args) < 2 THEN Refused(group_list, "group name missing")
                   ELSE IF InList(join(Tail(args)), group_list)
                     THEN Reply(group_list, Resp("warning", "group exists", <<>>))
                   ELSE Saved(Append(group_list, join(Tail(args))), "group added")
            ELSE IF action = Remove
              THEN IF Len(args) < 2 THEN Refused(group_list, "number or name missing")
                   ELSE LET n == int(args[2])
                            group_name == join(Tail(args))
                        IN IF n.exc = "none"
                             THEN IF 0 <= n.ret - 1 /\ n.ret - 1 < Len(group_list)
                                    THEN Saved(RemoveAt(group_list, n.ret), "group removed")
                                    ELSE Refused(group_list, "invalid number")
                           ELSE IF InList(group_name, group_list)
                             THEN Saved(RemoveAt(group_list, IndexOf(group_name, group_list)),
                                        "group removed")
                           ELSE Refused(group_list, "group not found")
            ELSE IF action = Clear
              THEN IF Len(group_list) = 0 THEN Refused(group_list, "list already empty")
                   ELSE Saved(<<>>, "list cleared")
            ELSE Refused(group_list, "unknown action")

\* manage_whitelist, lines 227-229
manage_whitelist(f, args) ==
    LET r == manage_group_list(f.whitelist, args)
    IN Reply([f EXCEPT !.whitelist = r.file], r.response)

\* manage_blacklist, lines 231-233
manage_blacklist(f, args) ==
    LET r == manage_group_list(f.blacklist, args)
    IN Reply([f EXCEPT !.blacklist = r.file], r.response)

\* debug_duplicates, lines 405-464
debug_duplicates(f, args) ==
    IF args = <<>> THEN Reply(f, Resp("wrench", "debug help", <<>>))
    ELSE IF lower(args[1]) = Status THEN Reply(f, Resp("wrench", "debug status", <<>>))
    ELSE IF lower(args[1]) = Clear THEN Reply(f, Resp("warning", "debug clear", <<>>))
    ELSE IF lower(args[1]) = Test THEN Reply(f, Resp("test tube", "hash test", <<>>))
    ELSE Refused(f, "unknown debug action")

\* a defect of manage_duplicates: any integer is taken as the hours
manage_duplicates_unbounded(f, args) ==
    IF Len(args) >= 2 /\ lower(args[1]) = Hours /\ int(args[2]).exc = "none"
      THEN Saved([f EXCEPT !.expiry_hours = int(args[2]).ret], "hours set")
      ELSE Refused(f, "not hours")

\* manage_duplicates, lines 310-403
manage_duplicates(f, args) ==
    IF args = <<>>
      THEN Reply(f, Resp("arrows", "settings",
                         [enabled |-> f.enabled, hours |-> f.expiry_hours,
                          include_sender |-> f.include_sender]))
    ELSE LET action == lower(args[1])
         IN IF action = On THEN Saved([f EXCEPT !.enabled = TRUE], "enabled")
            ELSE IF action = Off THEN Refused([f EXCEPT !.enabled = FALSE], "disabled")
            ELSE IF action = Hours
              THEN IF Len(args) < 2 THEN Refused(f, "hours missing")
                   ELSE LET hours == int(args[2])
                        IN IF hours.exc # "none" THEN Refused(f, "invalid number")
                           ELSE IF hours.ret < 1 \/ hours.ret > 168
                             THEN Refused(f, "hours out of range")
                           ELSE Saved([f EXCEPT !.expiry_hours = hours.ret], "hours set")
            ELSE IF action = Sender
              THEN IF Len(args) < 2 THEN Refused(f, "on or off missing")
                   ELSE IF lower(args[2]) = On
                     THEN Saved([f EXCEPT !.include_sender = TRUE], "sender included")
                   ELSE IF lower(args[2]) = Off
                     THEN Refused([f EXCEPT !.include_sender = FALSE], "sender ignored")
                   ELSE Refused(f, "use on or off")
            ELSE IF action = Debug THEN debug_duplicates(f, Tail(args))
            ELSE IF action = Clear THEN Reply(f, Resp("bin", "restart to clear", <<>>))
            ELSE Refused(f, "unknown action")

\* manage_notification_target, lines 466-547
manage_notification_target(f, args) ==
    IF args = <<>> THEN Reply(f, Resp("mailbox", "target", f.notification_target))
    ELSE LET action == lower(args[1])
         IN IF action = Set
              THEN IF Len(args) < 2 THEN Refused(f, "target missing")
                   ELSE IF args[2] # Me
                           /\ ~ (startswith(args[2], <<"@">>) \/ isdigit(lstrip_dash(args[2])))
                     THEN Refused(f, "invalid target format")
                   ELSE Saved([f EXCEPT !.notification_target = args[2]], "target set")
            ELSE IF action = Test
              THEN Reply(f, Resp("test tube", "test message", f.notification_target))
            ELSE IF action = Check
              THEN IF Len(args) < 2 THEN Refused(f, "target missing")
                   ELSE Reply(f, Resp("magnifier", "target check", args[2]))
            ELSE Refused(f, "unknown action")

\* show_help, lines 549-583
show_help(f) == Reply(f, Resp("robot", "help", <<>>))

\* a defect of process_command: the first token is looked up as it was typed
process_command_as_typed(f, message_text) ==
    LET parts == split(strip(message_text))
        command == parts[1]
        args == Tail(parts)
    IN IF parts = <<>> \/ ~ startswith(parts[1], <<"/">>) THEN show_help(f)
       ELSE IF command = AddCmd THEN add_keyword(f, args)
       ELSE IF command = KeywordsCmd THEN list_keywords(f, args)
       ELSE Reply(f, Resp("cross", "unknown command", show_help(f).response))

\* process_command, lines 53-75; an exception of a handler becomes a response
process_command(f, message_text) ==
    LET parts == split(strip(message_text))
        command == lower(parts[1])
        args == Tail(parts)
        r == IF command = Help THEN show_help(f)
             ELSE IF command = KeywordsCmd THEN list_keywords(f, args)
             ELSE IF command = AddCmd THEN add_keyword(f, args)
             ELSE IF command = RemoveCmd THEN remove_keyword(f, args)
             ELSE IF command = ClearCmd THEN clear_keywords(f, args)
             ELSE IF command = StatusCmd THEN show_status(f, args)
             ELSE IF command = GroupsCmd THEN manage_groups(f, args)
             ELSE IF command = WhitelistCmd THEN manage_whitelist(f, args)
             ELSE IF command = BlacklistCmd THEN manage_blacklist(f, args)
             ELSE IF command = Duplicates THEN manage_duplicates(f, args)
             ELSE IF command = TargetCmd THEN manage_notification_target(f, args)
             ELSE Reply(f, Resp("cross", "unknown command", show_help(f).response))
    IN IF parts = <<>> \/ ~ startswith(parts[1], <<"/">>) THEN show_help(f)
       ELSE IF r.response.glyph = "raised" THEN Refused(f, "processing error")
       ELSE r

-----------------------------------------------------------------------------
(* The commands: keyword_manager.py process_command as main.py handle_command
   calls it, on the content of config.json.  Every handler loads the file,
   and handle_command reloads self.config from it once process_command has
   returned; the keywords of self.config are what the next message is
   matched against. *)

KeywordCommands ==
    {<<"/","k","e","y","w","o","r","d","s">>,
     <<"/","a","d","d"," ","(","?","i",")","l","o","v","e">>,
     <<"/","a","d","d"," ","p","y","t","h","o","n">>,
     <<"/","a","d","d"," ","2">>,
     <<"/","a","d","d">>,
     <<"/","A","D","D"," ","p","y","t","h","o","n">>,
     <<"/","r","e","m","o","v","e"," ","1">>,
     <<"/","r","e","m","o","v","e"," ","2">>,
     <<"/","r","e","m","o","v","e"," ","0">>,
     <<"/","r","e","m","o","v","e"," ","9">>,
     <<"/","r","e","m","o","v","e"," ","p","y","t","h","o","n">>,
     <<"/","r","e","m","o","v","e"," ","j","a","v","a">>,
     <<"/","r","e","m","o","v","e">>,
     <<"/","c","l","e","a","r">>}
GroupCommands ==
    {<<"/","g","r","o","u","p","s">>,
     <<"/","w","h","i","t","e","l","i","s","t">>,
     <<"/","w","h","i","t","e","l","i","s","t"," ","l","i","s","t">>,
     <<"/","w","h","i","t","e","l","i","s","t"," ","a","d","d"," ","A","l","i","c","e"," ","G","r","o","u","p">>,
     <<"/","w","h","i","t","e","l","i","s","t"," ","a","d","d">>,
     <<"/","w","h","i","t","e","l","i","s","t"," ","r","e","m","o","v","e"," ","1">>,
     <<"/","w","h","i","t","e","l","i","s","t"," ","r","e","m","o","v","e"," ","5">>,
     <<"/","w","h","i","t","e","l","i","s","t"," ","r","e","m","o","v","e"," ","A","l","i","c","e"," ","G","r","o","u","p">>,
     <<"/","w","h","i","t","e","l","i","s","t"," ","r","e","m","o","v","e"," ","B","o","b"," ","G","r","o","u","p">>,
     <<"/","w","h","i","t","e","l","i","s","t"," ","r","e","m","o","v","e">>,
     <<"/","w","h","i","t","e","l","i","s","t"," ","c","l","e","a","r">>,
     <<"/","w","h","i","t","e","l","i","s","t"," ","d","r","o","p">>,
     <<"/","b","l","a","c","k","l","i","s","t"," ","r","e","m","o","v","e"," ","1">>,
     <<"/","b","l","a","c","k","l","i","s","t"," ","c","l","e","a","r">>}
DuplicatesCommands ==
    {<<"/","d","u","p","l","i","c","a","t","e","s">>,
     <<"/","d","u","p","l","i","c","a","t","e","s"," ","o","n">>,
     <<"/","d","u","p","l","i","c","a","t","e","s"," ","o","f","f">>,
     <<"/","d","u","p","l","i","c","a","t","e","s"," ","h","o","u","r","s"," ","4","8">>,
     <<"/","d","u","p","l","i","c","a","t","e","s"," ","h","o","u","r","s"," ","0">>,
     <<"/","d","u","p","l","i","c","a","t","e","s"," ","h","o","u","r","s"," ","2","0","0">>,
     <<"/","d","u","p","l","i","c","a","t","e","s"," ","h","o","u","r","s"," ","-","5">>,
     <<"/","d","u","p","l","i","c","a","t","e","s"," ","h","o","u","r","s"," ","x">>,
     <<"/","d","u","p","l","i","c","a","t","e","s"," ","h","o","u","r","s">>,
     <<"/","d","u","p","l","i","c","a","t","e","s"," ","s","e","n","d","e","r">>,
     <<"/","d","u","p","l","i","c","a","t","e","s"," ","s","e","n","d","e","r"," ","m","a","y","b","e">>,
     <<"/","d","u","p","l","i","c","a","t","e","s"," ","d","e","b","u","g">>,
     <<"/","d","u","p","l","i","c","a","t","e","s"," ","c","l","e","a","r">>,
     <<"/","d","u","p","l","i","c","a","t","e","s"," ","n","e","v","e","r">>}
TargetCommands ==
    {<<"/","t","a","r","g","e","t">>,
     <<"/","t","a","r","g","e","t"," ","s","e","t"," ","m","e">>,
     <<"/","t","a","r","g","e","t"," ","s","e","t"," ","@","c","h","a","n">>,
     <<"/","t","a","r","g","e","t"," ","s","e","t"," ","-","1","0","0","1">>,
     <<"/","t","a","r","g","e","t"," ","s","e","t"," ","-","-","5">>,
     <<"/","t","a","r","g","e","t"," ","s","e","t"," ","c","h","a","n">>,
     <<"/","t","a","r","g","e","t"," ","s","e","t"," ","-">>,
     <<"/","t","a","r","g","e","t"," ","s","e","t">>,
     <<"/","t","a","r","g","e","t"," ","t","e","s","t">>,
     <<"/","t","a","r","g","e","t"," ","c","h","e","c","k">>,
     <<"/","t","a","r","g","e","t"," ","m","o","v","e">>}
OtherCommands ==
    {<<"/","s","t","a","t","u","s">>,
     <<"/","s","t","a","r","t">>,
     <<"h","e","l","l","o">>,
     <<>>,
     <<" "," ">>}
CommandSamples ==
    KeywordCommands \cup GroupCommands \cup DuplicatesCommands \cup TargetCommands
      \cup OtherCommands \cup {AddCmd \o <<" ">> \o k : k \in {Unclosed, <<"(","a",RepBig,")">>}}

CommandsInit ==
    /\ file = DefaultConfig
    /\ config = file
    /\ duplicate_detection_enabled = config.enabled
    /\ hash_expiry_hours = config.expiry_hours
    /\ include_sender_in_hash = config.include_sender
    /\ PureUnused /\ DedupUnused /\ NotifyUnused /\ LoopUnused

\* process_command on a text, and the reload that follows it in main.py
\* handle_command, lines 758-762.  handle_command passes on the texts that
\* start with "/"; for any other text process_command changes nothing, and
\* the reload finds the file as it was.
Command ==
    \E message_text \in CommandSamples :
        LET r == process_command(file, message_text)
        IN /\ inp' = [op |-> "command", text |-> message_text, before |-> file]
           /\ out' = <<r.response>>
           /\ file' = r.file
           /\ config' = file'
           /\ UNCHANGED <<dedupVars, attrVars, loop, notifyVars>>

\* main.py message_handler, line 716: the keywords of self.config on a message
Match ==
    \E message_text \in {ILovePython, <<"2">>} :
        /\ inp' = [op |-> "message", text |-> message_text, before |-> file]
        /\ out' = <<check_keywords(message_text, config.keywords, config.case_sensitive)>>
        /\ UNCHANGED <<cfgVars, dedupVars, attrVars, loop, notifyVars>>

CommandsNext == Command \/ Match

SpecCommands == CommandsInit /\ [][CommandsNext]_vars

\* the command just processed and its response
Commanded == inp.op = "command" /\ out # <<>>
Parts == split(strip(inp.text))
Response == out[1]
IsError == Response.glyph = "cross"

C15_HoursCommand ==
    /\ Commanded /\ Len(Parts) >= 3
    /\ lower(Parts[1]) = Duplicates /\ lower(Parts[2]) = Hours
C15_BadHours ==
    LET n == int(Parts[3]) IN n.exc # "none" \/ n.ret < 1 \/ n.ret > 168

\* C15: the hours of validity in config.json are between 1 and 168 after any
\* sequence of commands, and `/duplicates hours N` with N below 1, above 168
\* or not an integer is answered with an error and leaves config.json as it was
C15_TtlInRange ==
    /\ file.expiry_hours \in 1..168
    /\ (C15_HoursCommand /\ C15_BadHours) => (IsError /\ file = inp.before)

\* an out-of-range N refused after another N had been accepted
C15_Witness ==
    /\ C15_HoursCommand /\ C15_BadHours /\ int(Parts[3]).exc = "none"
    /\ inp.before.expiry_hours = 48 /\ file.expiry_hours = 48

\* the command just processed was confirmed, and what it asked for
C16_Confirmed == Commanded /\ Response.glyph = "check"
C16_HoursSet == C16_Confirmed /\ C15_HoursCommand
C16_Added == C16_Confirmed /\ lower(Parts[1]) = AddCmd
C16_TargetSet ==
    C16_Confirmed /\ lower(Parts[1]) = TargetCmd /\ Len(Parts) >= 3 /\ lower(Parts[2]) = Set
C16_NextCommand(text) == inp'.op = "command" /\ inp'.text = text

\* the read-only command that comes next reports what was set, and the
\* keywords of self.config match the next message that contains the new one
C16_ConfigRead ==
    /\ (C16_HoursSet /\ C16_NextCommand(Duplicates))
           => out'[1].shown.hours = int(Parts[3]).ret
    /\ (C16_Added /\ C16_NextCommand(KeywordsCmd))
           => \E i \in DOMAIN out'[1].shown : out'[1].shown[i].keyword = join(Tail(Parts))
    /\ (C16_TargetSet /\ C16_NextCommand(TargetCmd))
           => out'[1].shown = Parts[3]
    /\ C16_Confirmed => config = file
    /\ (C16_Added /\ inp'.op = "message" /\ InStr(join(Tail(Parts)), inp'.text))
           => /\ out'[1].exc = "none"
              /\ join(Tail(Parts)) \in Range(out'[1].ret)

\* the settings the next message is deduplicated under are those just set
C16_SettingsRead ==
    C16_Confirmed =>
        /\ duplicate_detection_enabled' = file.enabled
        /\ hash_expiry_hours' = file.expiry_hours
        /\ include_sender_in_hash' = file.include_sender

\* C16: once a mutating command has been confirmed, the read-only command
\* that follows reports the mutated state (`/duplicates` the hours set,
\* `/keywords` the keyword added, `/target` the target set), and what the
\* monitor holds in memory for the next ordinary message contains the
\* mutation: an added keyword is matched by the next message containing it
C16_ReadAfterWrite == [][C16_ConfigRead /\ C16_SettingsRead]_vars

\* the same of self.config alone, leaving aside the three attributes that
\* __init__ copied from it
C16_ReadAfterWriteOfConfig == [][C16_ConfigRead]_vars

\* C17: the arguments of the command just processed, and the list it names
C17_Command == lower(Parts[1])
C17_Args == Tail(Parts)
C17_Action == lower(C17_Args[1])
C17_OnGroups == C17_Command \in {WhitelistCmd, BlacklistCmd}
C17_GroupList ==
    IF C17_Command = WhitelistCmd THEN inp.before.whitelist ELSE inp.before.blacklist

\* n outside 1..length of the list, or a name that is not in the list
C17_BadElement(args, lst) ==
    LET n == int(args[1])
    IN IF n.exc = "none" THEN n.ret \notin 1..Len(lst) ELSE ~ InList(join(args), lst)

C17_BadRemoval ==
    \/ C17_Command = RemoveCmd /\ C17_Args # <<>>
         /\ C17_BadElement(C17_Args, inp.before.keywords)
    \/ C17_OnGroups /\ Len(C17_Args) >= 2 /\ C17_Action = Remove
         /\ C17_BadElement(Tail(C17_Args), C17_GroupList)

C17_MissingArgument ==
    \/ C17_Command \in {AddCmd, RemoveCmd} /\ C17_Args = <<>>
    \/ C17_OnGroups /\ C17_Args = <<>>
    \/ C17_OnGroups /\ Len(C17_Args) = 1 /\ C17_Action \in {Add, Remove}
    \/ C17_Command = Duplicates /\ Len(C17_Args) = 1 /\ C17_Action \in {Hours, Sender}
    \/ C17_Command = TargetCmd /\ Len(C17_Args) = 1 /\ C17_Action \in {Set, Check}

C17_UnknownAction ==
    /\ C17_Args # <<>>
    /\ \/ C17_OnGroups /\ C17_Action \notin {List, Add, Remove, Clear}
       \/ C17_Command = Duplicates
            /\ C17_Action \notin {On, Off, Hours, Sender, Debug, Clear}
       \/ C17_Command = TargetCmd /\ C17_Action \notin {Set, Test, Check}

\* "me", a string starting with "@", or one optional "-" and then digits
C18_SignedIntegerLiteral(t) ==
    isdigit(IF t # <<>> /\ Head(t) = "-" THEN Tail(t) ELSE t)
C18_WellFormed(t) == t = Me \/ startswith(t, <<"@">>) \/ C18_SignedIntegerLiteral(t)

C17_BadTarget ==
    /\ C17_Command = TargetCmd /\ Len(C17_Args) >= 2 /\ C17_Action = Set
    /\ ~ C18_WellFormed(C17_Args[2])

C17_Unchanged == IsError /\ file = inp.before

\* C17: a command with a bad argument (a number outside the list, a name not
\* in the list, a missing argument, an unknown sub-action, a target of invalid
\* format) is answered with an error and leaves config.json as it was
C17_BadArgumentRefused ==
    (Commanded /\ Parts # <<>>
       /\ (C17_BadRemoval \/ C17_MissingArgument \/ C17_UnknownAction \/ C17_BadTarget))
        => C17_Unchanged

\* the same of every bad argument but the target of `/target set`
C17_BadListArgumentRefused ==
    (Commanded /\ Parts # <<>>
       /\ (C17_BadRemoval \/ C17_MissingArgument \/ C17_UnknownAction))
        => C17_Unchanged

\* C18: the notification target in config.json is "me", a string starting
\* with "@" or a signed integer literal after any sequence of commands
C18_TargetWellFormed == C18_WellFormed(file.notification_target)

\* the targets that `/target set` refuses are not well formed
C18_RefusedTargetsIllFormed ==
    (Commanded /\ Parts # <<>> /\ C17_Command = TargetCmd /\ Len(C17_Args) >= 2
       /\ C17_Action = Set /\ IsError)
        => ~ C18_WellFormed(C17_Args[2])

\* the keyword list before and after the command just processed
C20_Before == inp.before.keywords
C20_After == file.keywords
C20_DuplicateFree(lst) == \A i, j \in 1..Len(lst) : lst[i] = lst[j] => i = j
C20_OnKeywords == Commanded /\ Parts # <<>> /\ C17_Command \in {AddCmd, RemoveCmd, ClearCmd}
C20_Keyword == join(C17_Args)

\* C20: the keyword list of config.json holds no string twice and keeps the
\* order of insertion after any sequence of `/add`, `/remove` and `/clear`:
\* `/add k` leaves the list as it was when k is in it and appends k at the end
\* when it is not, and `/remove` deletes exactly one element and keeps the
\* order of the others
C20_KeywordListOrdered ==
    /\ C20_DuplicateFree(C20_After)
    /\ (C20_OnKeywords /\ C17_Command = AddCmd /\ C17_Args # <<>>) =>
           IF InList(C20_Keyword, C20_Before) THEN C20_After = C20_Before
           ELSE IsError \/ C20_After = Append(C20_Before, C20_Keyword)
    /\ (C20_OnKeywords /\ C17_Command = RemoveCmd /\ C20_After # C20_Before) =>
           \E i \in 1..Len(C20_Before) : C20_After = RemoveAt(C20_Before, i)

\* `/add` of a keyword that is already the first of two
C20_Witness ==
    /\ C20_OnKeywords /\ C17_Command = AddCmd /\ C17_Args # <<>>
    /\ Len(C20_Before) = 2 /\ C20_Before[1] = C20_Keyword
    /\ Response.glyph = "warning"

\* the async_commands and sync_commands tables, keyword_manager.py lines 19-35
C21_Table ==
    {KeywordsCmd, AddCmd, RemoveCmd, ClearCmd, StatusCmd, GroupsCmd, WhitelistCmd,
     BlacklistCmd, Duplicates, TargetCmd, Help}
C21_HelpText == show_help(inp.before).response
C21_Handler(command, f, args) ==
    CASE command = KeywordsCmd -> list_keywords(f, args)
      [] command = AddCmd -> add_keyword(f, args)
      [] command = RemoveCmd -> remove_keyword(f, args)
      [] command = ClearCmd -> clear_keywords(f, args)
      [] command = StatusCmd -> show_status(f, args)
      [] command = GroupsCmd -> manage_groups(f, args)
      [] command = WhitelistCmd -> manage_whitelist(f, args)
      [] command = BlacklistCmd -> manage_blacklist(f, args)
      [] command = Duplicates -> manage_duplicates(f, args)
      [] command = TargetCmd -> manage_notification_target(f, args)
      [] command = Help -> show_help(f)
C21_NoCommand == Parts = <<>> \/ ~ startswith(Parts[1], <<"/">>)

\* C21: process_command selects the handler by the lower-cased first
\* whitespace-separated token from the command table; a first token that is
\* not in the table returns the help text (after a line naming the unknown
\* command), empty input and input that does not start with "/" return the
\* help text, and none of the three changes config.json
C21_TableDispatch ==
    Commanded =>
        IF C21_NoCommand
          THEN Response = C21_HelpText /\ file = inp.before
        ELSE IF lower(Parts[1]) \notin C21_Table
          THEN Response.shown = C21_HelpText /\ file = inp.before
        ELSE LET r == C21_Handler(lower(Parts[1]), inp.before, Tail(Parts))
             IN IF r.response.glyph = "raised"
                  THEN IsError /\ file = inp.before
                  ELSE Response = r.response /\ file = r.file

\* a command typed in capitals reached its handler and changed the list
C21_Witness ==
    /\ Commanded /\ ~ C21_NoCommand
    /\ Parts[1] # lower(Parts[1]) /\ lower(Parts[1]) = AddCmd
    /\ file # inp.before

\* the keyword list that `/keywords` has just shown
C27_Listed == Commanded /\ Parts # <<>> /\ C17_Command = KeywordsCmd /\ Response.shown # <<>>

\* C27: `/keywords` marks a keyword as a pattern exactly when the matcher
\* treats it as a regular expression, and the validation of `/add` takes a
\* keyword for a pattern in exactly the same cases
C27_ClassificationAgrees ==
    /\ C27_Listed =>
           \A i \in DOMAIN Response.shown :
               Response.shown[i].regex <=> IsRegexKeyword(Response.shown[i].keyword)
    /\ (Commanded /\ Parts # <<>> /\ C17_Command = AddCmd /\ C17_Args # <<>>) =>
           (ValidatedAsRegex(C20_Keyword) <=> IsRegexKeyword(C20_Keyword))

\* a pattern and a literal keyword listed together, the pattern alone marked
C27_Witness ==
    /\ C27_Listed
    /\ \E i, j \in DOMAIN Response.shown :
           /\ Response.shown[i].keyword = <<"(","?","i",")","l","o","v","e">>
           /\ Response.shown[i].regex
           /\ Response.shown[j].keyword = Python /\ ~ Response.shown[j].regex

\* C32: config.json is rewritten only by a command whose response begins with
\* the success glyph, and a response that begins with a failure or warning
\* glyph means the configuration was not changed.
C32_GlyphTellsOutcome ==
    Commanded =>
        /\ file # inp.before => Response.glyph = "check"
        /\ Response.glyph \in {"cross", "warning"} => file = inp.before

C33_Compiles(lst) ==
    \A i \in 1..Len(lst) : ValidatedAsRegex(lst[i]) => re_compile(lst[i]).err = "none"
C33_BadPattern ==
    /\ C20_OnKeywords /\ C17_Command = AddCmd /\ C17_Args # <<>>
    /\ ValidatedAsRegex(C20_Keyword) /\ re_compile(C20_Keyword).err # "none"

\* C33: every keyword of config.json that is classified as a pattern
\* compiles, after any sequence of commands; `/add` of a keyword that is
\* classified as a pattern and does not compile answers with an error and
\* leaves the configuration as it was
C33_PatternsCompile ==
    /\ C33_Compiles(file.keywords)
    /\ C33_BadPattern => IsError /\ file = inp.before

\* a pattern that does not compile is refused while the list holds one that
\* does
C33_Witness ==
    /\ C33_BadPattern /\ IsError
    /\ \E i \in 1..Len(file.keywords) : ValidatedAsRegex(file.keywords[i])

\* the command just processed was an `/add` that was accepted, and the
\* command being processed is `/remove` with the same words
C38_Added ==
    /\ Commanded /\ Parts # <<>> /\ C17_Command = AddCmd /\ C17_Args # <<>>
    /\ Response.glyph = "check"
C38_RemovesIt ==
    /\ inp'.op = "command"
    /\ LET parts == split(strip(inp'.text))
       IN parts # <<>> /\ lower(parts[1]) = RemoveCmd /\ Tail(parts) = C17_Args

\* C38: `/add k`, accepted for a keyword k that was not in the list, followed
\* by `/remove k` leaves the keyword list of config.json as it was before the
\* two, also when k consists of digits.
C38_AddRemoveRoundTrip ==
    [][C38_Added /\ C38_RemovesIt => file'.keywords = inp.before.keywords]_vars

\* the same, for a keyword whose first word is no integer
C38_AddRemoveRoundTripOfWords ==
    [][(C38_Added /\ C38_RemovesIt /\ int(C17_Args[1]).exc # "none")
          => file'.keywords = inp.before.keywords]_vars

\* handle_command sends at most three texts: lines 777, 784 and 787
CommandSends == 3

\* Events
MaxClock == 1
HoursArgs == {str(h) : h \in 1..MaxHours} \cup {<<"0">>, <<"x">>}
DuplicatesOff == Duplicates \o <<" ">> \o Off
CommandTexts ==
    {Duplicates \o <<" ">> \o a : a \in {On, Off, <<"O","F","F">>}}
      \cup {Duplicates \o <<" ">> \o Hours \o <<" ">> \o h : h \in HoursArgs}
      \cup {Duplicates \o <<" ">> \o Sender \o <<" ">> \o a : a \in {On, Off}}
      \cup {Duplicates, Help}
GroupChats == {[id |-> 100, title |-> AliceGroup], [id |-> 101, title |-> BobGroup]}
SelfChat == [id |-> SelfId, title |-> <<"S","a","v","e","d">>]
GroupTexts == {<<>>, ILovePython, <<"h","i">>, DuplicatesOff}
GroupSenders == {<<8>>, <<9>>}

\* the configurations the monitor starts from
MonitorBase ==
    [DefaultConfig EXCEPT !.keywords = <<Python>>, !.blacklist = <<BobGroup>>]
MonitorConfigs ==
    {[b EXCEPT !.enabled = e, !.expiry_hours = h, !.include_sender = i] :
        b \in {[MonitorBase EXCEPT !.notification_target = AtChan, !.needs_join = TRUE,
                                   !.invite_hash = InviteToken,
                                   !.notification_mode = "both"]},
        e \in BOOLEAN, h \in 1..MaxHours, i \in BOOLEAN}

\* main.py __init__, lines 24-40: the three attributes are read from the
\* configuration once
Init ==
    /\ file \in MonitorConfigs
    /\ config = file
    /\ duplicate_detection_enabled = config.enabled
    /\ hash_expiry_hours = config.expiry_hours
    /\ include_sender_in_hash = config.include_sender
    /\ now = 0 /\ message_hashes = <<>> /\ bulk = [t \in Times |-> 0] /\ lastCall = <<>>
    /\ inp = [op |-> "none"] /\ out = <<>>
    /\ pc = "ready" /\ sn = NoLocals /\ attempts = <<>> /\ log = {}
    /\ LoopUnused

\* an inbound message; target_here is whether get_entity(notification_target)
\* was called and returned an entity whose id is the id of the chat
Event(chat, message_text, sender_id, target_here) ==
    [op |-> "message", service |-> FALSE, chat_id |-> chat.id, chat_title |-> chat.title,
     message_text |-> message_text, sender_id |-> sender_id,
     target_here |-> target_here]

\* a defect of the command-chat test: every chat is a command chat
is_command_chat_anywhere(chat_id, me_id, notification_target, target_here) == TRUE

\* main.py message_handler, lines 696-707
is_command_chat(chat_id, me_id, notification_target, target_here) ==
    IF chat_id = me_id THEN TRUE
    ELSE IF notification_target # Me THEN target_here
    ELSE FALSE

Outcome(o) == <<[outcome |-> o, before |-> Cache(message_hashes, bulk)]>>

\* the handler ends without a call of send_notification
Done(o, lines) ==
    /\ out' = Outcome(o)
    /\ pc' = "returned" /\ sn' = NoLocals /\ attempts' = <<>> /\ log' = lines

HandlerError == {[level |-> "error", msg |-> "Error in message handler"]}

\* the sends of handle_command, lines 768-787: the response, then the error
\* text to the command chat, then the error text to 'me'
Replies(chat_id, oks) ==
    [j \in 1..Len(oks) |->
        [stage |-> "command", what |-> IF j = 1 THEN "response" ELSE "error",
         to |-> IF j = 3 THEN StrForm(Me) ELSE IntForm(chat_id), ok |-> oks[j]]]

\* main.py load_config, lines 55-63: the file cannot be loaded, the error is
\* logged and sys.exit(1) raises SystemExit, which no `except Exception` catches
ConfigError == {[level |-> "error", msg |-> "Error loading config"]}

\* main.py message_handler, lines 677-711, for a message in a command chat,
\* and handle_command, lines 750-787.  get_entity is called when the chat is
\* not Saved Messages and the target is not 'me' (lines 700-706).  `loadable`
\* is whether config.json, at the time of the command, is there and holds the
\* JSON object last saved; when it is not, process_command answers with its
\* error text (keyword_manager.py 74-75) and the reload of line 762 ends the
\* process before the answer is sent.
HandleCommand ==
    /\ pc = "ready"
    /\ \E chat \in {SelfChat} \cup GroupChats, message_text \in CommandTexts \cup {ILovePython},
          me \in BOOLEAN, target_here \in BOOLEAN, loadable \in BOOLEAN :
         /\ ~ loadable => me /\ startswith(message_text, <<"/">>)
         /\ target_here => me /\ chat.id # SelfId /\ config.notification_target # Me
         /\ ~ me \/ is_command_chat(chat.id, SelfId, config.notification_target, target_here)
         /\ ~ me => chat = SelfChat
         /\ inp' = Event(chat, message_text,
                         IF chat = SelfChat THEN <<SelfId>> ELSE <<8>>, target_here)
         /\ out' = Outcome(IF ~ me THEN "error" ELSE IF loadable THEN "command" ELSE "exit")
         /\ pc' = (IF loadable THEN "returned" ELSE "exited") /\ sn' = NoLocals
         /\ IF ~ me
              THEN attempts' = <<>> /\ log' = HandlerError /\ UNCHANGED cfgVars
            ELSE IF ~ loadable
              THEN attempts' = <<>> /\ log' = ConfigError /\ UNCHANGED cfgVars
            ELSE IF ~ startswith(message_text, <<"/">>)
              THEN attempts' = <<>> /\ log' = {} /\ UNCHANGED cfgVars
              ELSE /\ file' = process_command(file, message_text).file
                   /\ config' = file'
                   /\ \E oks \in SeqsUpTo(BOOLEAN, CommandSends) :
                        /\ oks # <<>>
                        /\ \A j \in 1..(Len(oks) - 1) : ~ oks[j]
                        /\ Len(oks) < CommandSends => oks[Len(oks)]
                        /\ attempts' = Replies(chat.id, oks)
                        /\ log' = (IF Len(oks) > 1
                                     THEN {[level |-> "error", msg |-> "Error handling command"]}
                                     ELSE {})
                                  \cup (IF ~ oks[Len(oks)] THEN HandlerError ELSE {})
    /\ UNCHANGED <<dedupVars, attrVars, loop>>

\* a defect of message_handler: the message is recorded in the cache before
\* it is matched against the keywords
MessageHandlerDedupFirst ==
    /\ pc = "ready"
    /\ \E chat \in GroupChats, message_text \in GroupTexts \ {<<>>}, sender_id \in GroupSenders :
         /\ inp' = Event(chat, message_text, sender_id, FALSE)
         /\ DedupCall(generate_message_hash(message_text, sender_id, include_sender_in_hash))
         /\ Done("no keyword", {})
    /\ UNCHANGED <<now, attrVars, loop, cfgVars>>

\* main.py message_handler, lines 677-748, for a message of a chat that is not
\* a command chat, up to the call of send_notification; `me` is whether
\* get_me returned.  get_entity raised, or returned an entity that is not
\* the chat (lines 702-706).
MessageHandler ==
    /\ pc = "ready"
    /\ \E chat \in GroupChats, message_text \in GroupTexts, sender_id \in GroupSenders,
          me \in BOOLEAN, service \in BOOLEAN :
         /\ service => me /\ message_text = ILovePython /\ sender_id = <<8>>
         /\ me /\ message_text # <<>> /\ ~ service
               => ~ is_command_chat(chat.id, SelfId, config.notification_target, FALSE)
         /\ inp' = [Event(chat, message_text, sender_id, FALSE) EXCEPT !.service = service]
         /\ LET found_keywords ==
                    check_keywords(message_text, config.keywords, config.case_sensitive)
                message_hash ==
                    generate_message_hash(message_text, sender_id, include_sender_in_hash)
                quiet == lastCall' = <<>> /\ UNCHANGED <<message_hashes, bulk>>
            IN IF service THEN Done("service", {}) /\ quiet
               ELSE IF message_text = <<>> THEN Done("empty", {}) /\ quiet
               ELSE IF ~ me THEN Done("error", HandlerError) /\ quiet
               ELSE IF ~ check_group_filters(chat.id, chat.title,
                                             config.whitelist, config.blacklist)
                 THEN Done("filtered", {}) /\ quiet
               ELSE IF found_keywords.exc # "none" THEN Done("error", HandlerError) /\ quiet
               ELSE IF found_keywords.ret = <<>> THEN Done("no keyword", {}) /\ quiet
               ELSE IF duplicate_detection_enabled
                         /\ is_duplicate_message(Cache(message_hashes, bulk), message_hash,
                                                 now, hash_expiry_hours).ret
                 THEN Done("duplicate", {}) /\ DedupCall(message_hash)
               ELSE /\ out' = Outcome("notify")
                    /\ pc' = "idle" /\ sn' = NoLocals /\ attempts' = <<>> /\ log' = {}
                    /\ IF duplicate_detection_enabled THEN DedupCall(message_hash) ELSE quiet
    /\ UNCHANGED <<now, attrVars, loop, cfgVars>>

\* the handler in progress returns to the event loop
HandlerReturns ==
    /\ pc \in {"returned", "raised"}
    /\ pc' = "ready" /\ sn' = NoLocals /\ attempts' = <<>> /\ log' = {}
    /\ inp' = [op |-> "none"] /\ out' = <<>> /\ lastCall' = <<>>
    /\ UNCHANGED <<message_hashes, bulk, now, attrVars, loop, cfgVars>>

Clock == pc = "ready" /\ now < MaxClock /\ DedupTick

Next == MessageHandler \/ HandleCommand \/ HandlerReturns \/ Clock \/ NotifyNext

Spec == Init /\ [][Next]_vars

\* what the last handled message went through
C2_Deduplicated ==
    /\ inp.op = "message" /\ inp.chat_id # SelfId
    /\ out # <<>> /\ out[1].outcome \in {"duplicate", "notify"}

\* C2: an ordinary message is deduplicated under the settings the
\* configuration file holds when it is handled: with enabled false it is not
\* suppressed and the cache is neither consulted nor changed; with enabled true
\* the fingerprint includes the sender exactly when include_sender is set and
\* the window of is_duplicate_message is expiry_hours.
C2_PersistedSettingsApplied ==
    C2_Deduplicated =>
        IF ~ file.enabled
          THEN /\ out[1].outcome # "duplicate"
               /\ lastCall = <<>>
               /\ Cache(message_hashes, bulk) = out[1].before
          ELSE /\ lastCall # <<>>
               /\ lastCall[1].hash =
                      generate_message_hash(inp.message_text, inp.sender_id,
                                            file.include_sender)
               /\ lastCall[1].ret =
                      (/\ lastCall[1].found # <<>>
                       /\ lastCall[1].at - lastCall[1].found[1] < file.expiry_hours)
               /\ (out[1].outcome = "duplicate") = lastCall[1].ret

\* a message is being taken from the stream
C22_Taken == pc = "ready" /\ inp'.op = "message"

\* C22: the command router changes the configuration only for messages that
\* arrive in the control chat (Saved Messages, or the chat that the configured
\* notification target resolves to): a message that starts with "/" in any
\* other chat is not given to process_command and is handled as an ordinary
\* message
C22_OnlyControlChatRouted ==
    [][(C22_Taken /\ inp'.chat_id # SelfId /\ ~ inp'.target_here)
          => /\ out'[1].outcome # "command"
             /\ file' = file /\ config' = config]_vars

\* `/duplicates off` in a group that is not the target went to the matcher
C22_Witness ==
    /\ inp.op = "message" /\ inp.message_text = DuplicatesOff
    /\ inp.chat_id # SelfId /\ ~ inp.target_here
    /\ out # <<>> /\ out[1].outcome = "no keyword"
    /\ file.enabled

\* C23: no inbound message and no command ends the stream loop: whatever the
\* event, the transport failures and the state of config.json at the reload
\* that follows a command, message_handler returns and the process takes the
\* next event
C23_LoopSurvives == pc # "exited"

\* the process ends nowhere but in the reload after a command
C23_ExitOnlyAtReload ==
    pc = "exited" =>
        /\ out[1].outcome = "exit"
        /\ startswith(inp.message_text, <<"/">>)
        /\ inp.chat_id = SelfId \/ inp.target_here

\* the message being taken is an ordinary one that passes the source filter
\* and matches a keyword
C29_Matched ==
    /\ ~ inp'.service /\ inp'.message_text # <<>>
    /\ inp'.chat_id # SelfId /\ ~ inp'.target_here
    /\ check_group_filters(inp'.chat_id, inp'.chat_title, config.whitelist, config.blacklist)
    /\ check_keywords(inp'.message_text, config.keywords, config.case_sensitive).ret # <<>>

\* C29: the stages run in the order control-chat check, source filter, keyword
\* match, dedup, dispatch, and each gates the next: the cache is modified only
\* by a message that is no service message, has text, arrives outside the
\* control chat, passes the source filter and matches a keyword, and an alert
\* is dispatched only for such a message that is not reported as a duplicate
C29_StagesGate ==
    [][C22_Taken =>
         /\ <<message_hashes, bulk>>' # <<message_hashes, bulk>> => C29_Matched
         /\ out'[1].outcome = "duplicate" => C29_Matched
         /\ out'[1].outcome = "notify" =>
                C29_Matched /\ (lastCall' # <<>> => ~ lastCall'[1].ret)]_vars

\* a matching message of an allowed group was recorded and goes to dispatch
C29_Witness ==
    /\ inp.op = "message" /\ out # <<>> /\ out[1].outcome = "notify" /\ pc = "idle"
    /\ lastCall # <<>> /\ ~ lastCall[1].ret
    /\ Cache(message_hashes, bulk) # out[1].before

\* the fingerprint of the message in hand, and of the message being taken
C36_Hash == generate_message_hash(inp.message_text, inp.sender_id, include_sender_in_hash)
C36_NextHash ==
    generate_message_hash(inp'.message_text, inp'.sender_id, include_sender_in_hash)
C36_Alerting ==
    /\ inp.op = "message" /\ out # <<>> /\ out[1].outcome = "notify"
    /\ duplicate_detection_enabled

\* from the call of send_notification to its end, whatever fails, the cache
\* holds the fingerprint of the message at the time of its check
C36_RecordedBeforeDispatch ==
    C36_Alerting =>
        /\ C36_Hash \in DOMAIN message_hashes
        /\ message_hashes[C36_Hash] = lastCall[1].at

\* no step removes or changes an entry that is younger than the window
C36_KeptWithinWindow ==
    \A h \in DOMAIN message_hashes :
        now' - message_hashes[h] < hash_expiry_hours =>
            h \in DOMAIN message_hashes' /\ message_hashes'[h] = message_hashes[h]

\* a matched message whose fingerprint is held and younger than the window is
\* a duplicate (unless get_me raised and the handler ended before the check),
\* and send_notification is not called for it
C36_HeldSuppressed ==
    (/\ C22_Taken /\ C29_Matched /\ duplicate_detection_enabled
     /\ C36_NextHash \in DOMAIN message_hashes
     /\ now - message_hashes[C36_NextHash] < hash_expiry_hours)
      => /\ out'[1].outcome \in {"duplicate", "error"}
         /\ out'[1].outcome = "duplicate" => lastCall'[1].ret
         /\ pc' = "returned" /\ attempts' = <<>>

\* C36: the fingerprint is in the cache before the alert is dispatched and
\* stays there when every delivery attempt has failed, so that an identical
\* message within the window is a duplicate and nothing is sent for it.
C36_FailedAlertStaysRecorded ==
    /\ [] C36_RecordedBeforeDispatch
    /\ [][C36_KeptWithinWindow /\ C36_HeldSuppressed]_vars

\* every attempt of an alert has failed and its fingerprint is in the cache
C36_Witness ==
    /\ C36_Alerting /\ C10_AllFailed /\ pc = "returned"
    /\ C36_Hash \in DOMAIN message_hashes

-----------------------------------------------------------------------------
(* Media handling of the primary attempt, under SpecNotify *)

\* the sends and forwards of the primary attempt that address the target
C11_ToTarget(what) ==
    \E i \in StageIdx("primary") :
        attempts[i].what = what /\ attempts[i].to = StrForm(sn.notification_target)

\* the primary attempt ran to its end and no call of the alert raised
C11_PrimaryDone ==
    /\ pc = "returned"
    /\ sn.notification_mode \in {"channel_only", "both"}
    /\ \A i \in AlertIdx : attempts[i].ok

\* C11: in the primary attempt against the configured target, a message with
\* media under media_only_forward is forwarded and the composed text is not
\* sent; otherwise the composed text is sent, and the message is forwarded as
\* well exactly when it has media and forward_media is set.
C11_MediaHandling ==
    C11_PrimaryDone =>
        IF sn.has_media /\ sn.media_only_forward
          THEN C11_ToTarget("forward") /\ ~ C11_ToTarget("notification")
          ELSE /\ C11_ToTarget("notification")
               /\ C11_ToTarget("forward") <=> (sn.has_media /\ sn.forward_media)

\* the same, for the settings under which the code forwards at all
C11_MediaHandlingWhenForwarding ==
    (C11_PrimaryDone /\ ~ (sn.has_media /\ sn.media_only_forward /\ ~ sn.forward_media))
        => C11_MediaHandling

-----------------------------------------------------------------------------
(* ensure_channel_access in the dispatches of several matched messages.
   Telethon runs each handler as a task of one event loop, so a handler gives
   way to another exactly where it awaits a network call; pc and sn belong to
   the handler that runs, and loop.waiting holds the handlers that await a
   call.  The transport record, the log, self.config and config.json are
   shared.  A handler is followed until ensure_channel_access has returned. *)

MaxDispatches == 2

Suspended == pc \notin {"idle", "returned", "raised"}
Handler == [pc |-> pc, sn |-> sn]
LoopFrame == UNCHANGED <<attempts, log, cfgVars, pureVars, dedupVars, attrVars>>

\* message_handler reaches the call of send_notification for a further
\* message, while the running handler awaits a call or after it has returned
Arrive ==
    /\ loop.begun < MaxDispatches
    /\ \/ /\ Suspended
          /\ loop' = [waiting |-> Append(loop.waiting, Handler), begun |-> loop.begun + 1]
       \/ /\ pc = "returned"
          /\ loop' = [loop EXCEPT !.begun = @ + 1]
    /\ pc' = "idle" /\ sn' = NoLocals
    /\ LoopFrame

\* the event loop gives control to a waiting handler
Resume ==
    /\ \E i \in 1..Len(loop.waiting) :
         /\ pc' = loop.waiting[i].pc /\ sn' = loop.waiting[i].sn
         /\ \/ /\ Suspended
               /\ loop' = [loop EXCEPT !.waiting = Append(RemoveAt(@, i), Handler)]
            \/ /\ pc = "returned"
               /\ loop' = [loop EXCEPT !.waiting = RemoveAt(@, i)]
    /\ LoopFrame

\* the configurations with a pending join
PendingJoin(c) == c.needs_join /\ c.invite_hash # <<>> /\ c.notification_target # Me

BootstrapInit ==
    /\ config \in {c \in NotifyConfigs : PendingJoin(c)} /\ file = config
    /\ pc = "idle" /\ sn = NoLocals /\ attempts = <<>> /\ log = {}
    /\ loop = [waiting |-> <<>>, begun |-> 1]
    /\ PureUnused /\ DedupUnused /\ AttrUnused

BootstrapNext ==
    \/ SendNotification \/ EcaJoin \/ EcaWelcome \/ EcaFallbackMsg
    \/ Arrive \/ Resume

SpecBootstrap == BootstrapInit /\ [][BootstrapNext]_vars

C12_Joins == {i \in 1..Len(attempts) : attempts[i].what = "join"}

\* C12: for one pending join, join-by-invite is invoked at most once over all
\* dispatches, whatever the outcome of the join call and however the handlers
\* of several matched messages interleave.
C12_JoinAtMostOnce == Cardinality(C12_Joins) <= 1

-----------------------------------------------------------------------------
(* ChannelBootstrap in one dispatch, under SpecNotify *)

InBootstrap == pc \in {"idle", "eca_join", "eca_welcome", "eca_fallback_msg"}
WhatIdx(what) == {i \in 1..Len(attempts) : attempts[i].what = what}
JoinRaised == \E i \in WhatIdx("join") : ~ attempts[i].ok
JoinedChannel == WhatIdx("welcome") # {}
CanonicalId == <<"-","1","0","0">> \o str(JoinedChannelId)

\* C13: when the join call has raised, then once ensure_channel_access has
\* returned the pending flag is false and the target is "me", in memory and in
\* the file, exactly one fallback notice was addressed to "me", and its
\* failure has not left send_notification.
C13_JoinFailureFallsBack ==
    (JoinRaised /\ ~ InBootstrap) =>
        /\ ~ config.needs_join /\ config.notification_target = Me
        /\ file = config
        /\ Cardinality(WhatIdx("fallback_msg")) = 1
        /\ \A i \in WhatIdx("fallback_msg") : attempts[i].to = StrForm(Me)
        /\ WhatIdx("welcome") = {}
        /\ pc # "raised"

\* the join raised, the notice failed as well, and the dispatch went on
C13_Witness ==
    /\ JoinRaised /\ pc = "returned"
    /\ \E i \in WhatIdx("fallback_msg") : ~ attempts[i].ok

\* C14: when the join call has returned a channel, then once
\* ensure_channel_access has returned the target is the canonical id of that
\* channel and the pending flag is false, in memory and in the file, one
\* confirmation was sent to the channel, and the alert of this dispatch
\* addresses the new target.
C14_JoinSuccessAdoptsChannel ==
    (JoinedChannel /\ ~ InBootstrap) =>
        /\ ~ config.needs_join /\ config.notification_target = CanonicalId
        /\ file = config
        /\ Cardinality(WhatIdx("welcome")) = 1
        /\ \A i \in WhatIdx("welcome") : attempts[i].to = Entity(JoinedChannelId)
        /\ sn.notification_target = CanonicalId
        /\ \A i \in StageIdx("primary") : attempts[i].to = StrForm(CanonicalId)

\* the same, when the confirmation was delivered
C14_WhenConfirmationDelivered ==
    (\A i \in WhatIdx("welcome") : attempts[i].ok) => C14_JoinSuccessAdoptsChannel

-----------------------------------------------------------------------------
(* Validation of the target, under SpecNotify *)

C24_Validating == pc \in {"v_entity", "v_me", "v_perm"}

\* the mode and the media settings ask for a send or forward to the target,
\* and the copy to Saved Messages, if there was one, did not raise
C24_TargetDue ==
    /\ sn.notification_mode \in {"channel_only", "both"}
    /\ \A i \in StageIdx("saved") : attempts[i].ok
    /\ ~ (sn.has_media /\ sn.media_only_forward /\ ~ sn.forward_media)

C24_TargetTried ==
    \E i \in StageIdx("primary") : attempts[i].to = StrForm(sn.notification_target)

\* C24: the validation of the target never blocks a send: whatever
\* validate_notification_target returns and whichever of its probes raises,
\* the send or forward to the configured target that the mode and the media
\* settings ask for is attempted; for the target "me" the validation makes no
\* transport call and yields true
C24_ValidationNeverBlocks ==
    /\ C24_Validating => sn.notification_target # Me
    /\ (sn.notification_target = Me /\ ~ C24_Validating) => sn.valid
    /\ (Over /\ C24_TargetDue) => C24_TargetTried

\* the validation found no send permission, and the alert was sent to the
\* target all the same
C24_Witness ==
    /\ pc = "returned" /\ ~ sn.valid /\ C24_TargetDue
    /\ \E i \in StageIdx("primary") :
           attempts[i].to = StrForm(sn.notification_target) /\ attempts[i].ok

-----------------------------------------------------------------------------
(* The fingerprint: main.py generate_message_hash on two messages *)

HashTexts ==
    {<<"p","y","t","h","o","n"," ","n","o","w">>,
     <<" ","P","Y","T","H","O","N"," ","n","o","w","\n">>,
     <<"P","y","t","h","o","n"," ","\t"," "," ","N","O","W">>,
     <<"p","y","t","h","o","n","n","o","w">>,
     <<"p">>,
     <<" ","P"," ">>,
     <<"a","b">>,
     <<"a"," ","b">>,
     <<"A"," "," ","b">>}
HashSenders == {<<>>, <<0>>, <<7>>, <<8>>}

HashInit ==
    /\ inp \in [op : {"generate_message_hash"}, text : HashTexts \X HashTexts,
                sender_id : HashSenders \X HashSenders, include_sender : BOOLEAN]
    /\ out = <<>>
    /\ DedupUnused /\ AttrUnused /\ CfgUnused /\ NotifyUnused /\ LoopUnused

GenerateMessageHash ==
    /\ inp.op = "generate_message_hash"
    /\ out = <<>>
    /\ out' = [i \in 1..2 |->
                  generate_message_hash(inp.text[i], inp.sender_id[i], inp.include_sender)]
    /\ UNCHANGED <<inp, dedupVars, attrVars, loop, cfgVars, notifyVars>>

SpecHash == HashInit /\ [][GenerateMessageHash]_vars

\* the two texts are the same words, letter case and white space apart
C25_Words(t) == [i \in 1..Len(split(t)) |-> lower(split(t)[i])]
C25_SameWords == C25_Words(inp.text[1]) = C25_Words(inp.text[2])
C25_TwoSenders ==
    /\ inp.sender_id[1] # <<>> /\ inp.sender_id[2] # <<>>
    /\ inp.sender_id[1] # inp.sender_id[2]

\* C25: for one text and two different sender ids the fingerprints differ
\* when include_sender is set and are equal when it is not; two texts that
\* differ only in letter case, in leading or trailing white space or in the
\* length of the runs of white space inside get the same fingerprint for the
\* same sender
C25_Fingerprint ==
    out # <<>> =>
        /\ (inp.text[1] = inp.text[2] /\ C25_TwoSenders)
               => ((out[1] # out[2]) <=> inp.include_sender)
        /\ (C25_SameWords /\ inp.sender_id[1] = inp.sender_id[2]) => out[1] = out[2]

\* two spellings of one text from one sender, with the sender in the fingerprint
C25_Witness ==
    /\ out # <<>> /\ inp.include_sender
    /\ inp.text[1] # inp.text[2] /\ lower(inp.text[1]) # lower(inp.text[2])
    /\ C25_SameWords /\ inp.sender_id[1] = <<7>> /\ inp.sender_id[2] = <<7>>
    /\ out[1] = out[2]

-----------------------------------------------------------------------------
(* A command handler interleaved with dispatches that run the channel
   bootstrap.  The event loop runs one handler at a time from one await to
   the next, so every state of this specification is a suspension point. *)

InterleavedCommands ==
    {<<"/","t","a","r","g","e","t"," ","s","e","t"," ","m","e">>,
     <<"/","d","u","p","l","i","c","a","t","e","s"," ","o","f","f">>}

\* lines 758-762 without the reload of line 762: the edit stays in the file
HandleCommandNoReload(message_text) ==
    /\ file' = process_command(file, message_text).file
    /\ UNCHANGED config

\* main.py handle_command, lines 758-762: process_command writes config.json
\* and self.config is read again from it, with no await in between
HandleCommandReload(message_text) ==
    /\ file' = process_command(file, message_text).file
    /\ config' = file'

\* a command arrives while the running handler waits at an await (or when no
\* handler runs); its handler gets as far as the send of the response, after
\* which it touches the configuration no more
CommandDuring ==
    /\ Suspended \/ pc = "returned"
    /\ \E message_text \in InterleavedCommands :
         /\ HandleCommandReload(message_text)
         /\ inp' = [op |-> "command",
                     racing |-> file.needs_join /\ pc = "eca_join"]
    /\ UNCHANGED <<out, pc, sn, attempts, log, loop, dedupVars, attrVars>>

\* the dispatches start with a join pending for one target; the media settings
\* and the mode play no part before ensure_channel_access has returned
InterleavedInit ==
    /\ BootstrapInit
    /\ config.forward_media /\ ~ config.media_only_forward
    /\ config.notification_mode = DefaultConfig.notification_mode
    /\ config.notification_target = AtChan

InterleavedNext == BootstrapNext \/ CommandDuring

SpecInterleaved == InterleavedInit /\ [][InterleavedNext]_vars

\* C30: at every suspension point self.config equals the content of
\* config.json, also when a command handler runs while a dispatch waits in
\* the channel bootstrap and that dispatch writes the file afterwards.
C30_MemoryEqualsFile == config = file

\* a command changed the file while a dispatch waited for the join, and the
\* bootstrap then wrote the joined channel over it
C30_Witness ==
    /\ inp.op = "command" /\ inp.racing /\ ~ file.enabled
    /\ ~ file.needs_join /\ file.notification_target = CanonicalId
    /\ JoinedChannel

-----------------------------------------------------------------------------
(* Start of the monitor: __init__ loads config.json, and the stream events
   that follow use what it loaded. *)

\* config.json as the process finds it: absent, not JSON, or a JSON object
\* with some of the top-level fields and a value of expiry_hours
ExpirySamples == {0, 1, 500}
StartFiles ==
    {[exists |-> FALSE], [exists |-> TRUE, parses |-> FALSE]}
      \cup {[exists |-> TRUE, parses |-> TRUE, fields |-> fs, expiry_hours |-> h] :
              fs \in SUBSET {"telegram", "keywords"}, h \in ExpirySamples}

\* main.py load_config, lines 42-63: the value returned, or the error logged
\* before sys.exit(1)
load_config(f) ==
    IF ~ f.exists THEN Raises("Config file not found")
    ELSE IF ~ f.parses THEN Raises("Invalid JSON in config file")
    ELSE IF \E field \in {"telegram", "keywords"} : field \notin f.fields
      THEN Raises("Error loading config")
    ELSE Returns([DefaultConfig EXCEPT !.expiry_hours = f.expiry_hours])

StartInit ==
    /\ inp \in {[op |-> "start", file |-> f] : f \in StartFiles}
    /\ out = <<>>
    /\ config = <<>> /\ file = <<>>
    /\ pc = "constructing" /\ sn = <<>> /\ attempts = <<>> /\ log = {}
    /\ DedupInit /\ AttrUnused /\ LoopUnused

\* main.py __init__, lines 25-40
Construct ==
    /\ pc = "constructing"
    /\ LET r == load_config(inp.file)
       IN IF r.exc # "none"
            THEN /\ pc' = "exited"
                 /\ log' = log \cup {[level |-> "error", msg |-> r.exc]}
                 /\ UNCHANGED <<cfgVars, attrVars>>
            ELSE /\ pc' = "ready"
                 /\ config' = r.ret /\ file' = r.ret
                 /\ duplicate_detection_enabled' = r.ret.enabled
                 /\ hash_expiry_hours' = r.ret.expiry_hours
                 /\ include_sender_in_hash' = r.ret.include_sender
                 /\ UNCHANGED log
    /\ UNCHANGED <<pureVars, dedupVars, sn, attempts, loop>>

\* a stream event that reaches the duplicate check, once run() has registered
\* the handler
StartedEvent == pc = "ready" /\ IsDuplicateMessage
StartedTick == pc = "ready" /\ DedupTick

StartNext == Construct \/ StartedEvent \/ StartedTick

SpecStart == StartInit /\ [][StartNext]_vars

C31_OutOfRange ==
    /\ inp.file.exists /\ inp.file.parses
    /\ inp.file.expiry_hours \notin 1..168

\* C31: a configuration file that is missing, is not JSON, lacks a required
\* field or carries an expiry_hours outside 1..168 ends the process before any
\* stream event is handled.
C31_BadConfigFatal ==
    load_config(inp.file).exc # "none" \/ C31_OutOfRange => lastCall = <<>>

\* what the code does: a file that cannot be loaded or lacks a required field
\* ends the process
C31_UnloadableFatal ==
    load_config(inp.file).exc # "none" => pc # "ready" /\ lastCall = <<>>

-----------------------------------------------------------------------------
(* Every alert leaves a trace, under SpecNotify *)

C34_Logged == [level |-> "info", msg |-> "NOTIFICATION"] \in log

\* C34: once send_notification has completed, a send or forward of the alert
\* was attempted to some destination, or the composed notification is in the
\* log, whatever the mode, the media settings and the media of the message.
C34_AttemptedOrLogged == Over => AlertIdx # {} \/ C34_Logged

\* the same, for the settings under which the primary attempt calls the
\* transport at all
C34_AttemptedOrLoggedWhenDue ==
    (Over /\ ~ (sn.notification_mode = "channel_only" /\ sn.has_media
                  /\ sn.media_only_forward /\ ~ sn.forward_media))
        => AlertIdx # {} \/ C34_Logged

-----------------------------------------------------------------------------
(* message_handler for matched messages of monitored groups, as tasks of one
   event loop: a handler gives way where it awaits get_chat_info, get_me,
   get_sender_info and send_notification, and nowhere else.  sn holds the
   fingerprint of the running handler's message, out the dispatches made. *)

\* lines 677-690: the event is taken up to the await of get_chat_info
MhStart ==
    /\ pc = "idle"
    /\ \E h \in Fingerprints : sn' = [message_hash |-> h]
    /\ pc' = "mh_chat_info"
    /\ UNCHANGED <<attempts, log, cfgVars, pureVars, dedupVars, attrVars, loop>>

\* line 690: get_chat_info has returned, get_me is awaited (line 693)
MhChatInfo ==
    /\ pc = "mh_chat_info"
    /\ pc' = "mh_get_me"
    /\ UNCHANGED <<sn, attempts, log, cfgVars, pureVars, dedupVars, attrVars, loop>>

\* lines 693-733: get_me has returned; the chat is no command chat, the
\* filters and the keywords pass, and is_duplicate_message looks the
\* fingerprint up and records it before the next await, of get_sender_info
MhCheck ==
    /\ pc = "mh_get_me"
    /\ DedupCall(sn.message_hash)
    /\ pc' = IF lastCall'[1].ret THEN "returned" ELSE "mh_sender_info"
    /\ sn' = [message_hash |-> sn.message_hash, checked |-> now]
    /\ UNCHANGED <<attempts, log, cfgVars, pureVars, now, attrVars, loop>>

\* lines 733-745: get_sender_info has returned and send_notification is called
MhDispatch ==
    /\ pc = "mh_sender_info"
    /\ out' = Append(out, [hash |-> sn.message_hash, at |-> sn.checked])
    /\ pc' = "returned"
    /\ UNCHANGED <<inp, sn, attempts, log, cfgVars, dedupVars, attrVars, loop>>

RaceInit ==
    /\ DedupInit /\ PureUnused /\ CfgUnused
    /\ pc = "idle" /\ sn = NoLocals /\ attempts = <<>> /\ log = {}
    /\ loop = [waiting |-> <<>>, begun |-> 1]
    /\ duplicate_detection_enabled = TRUE
    /\ include_sender_in_hash = TRUE
    /\ hash_expiry_hours \in 1..MaxHours

RaceNext ==
    \/ MhStart \/ MhChatInfo \/ MhCheck \/ MhDispatch
    \/ Arrive \/ Resume \/ DedupTick

SpecRace == RaceInit /\ [][RaceNext]_vars

\* the dispatches made for a fingerprint; each holds the time at which
\* is_duplicate_message reported its message as no duplicate
C35_Dispatched(h) == {i \in 1..Len(out) : out[i].hash = h}

\* C35: of the matched messages with one fingerprint whose handlers
\* interleave, at most one is reported as no duplicate and dispatched within
\* one window of hash_expiry_hours: a fingerprint is looked up and recorded
\* in one step.
C35_OneDispatchPerWindow ==
    \A h \in Fingerprints : \A i, j \in C35_Dispatched(h) :
        i # j => out[j].at - out[i].at >= hash_expiry_hours
                   \/ out[i].at - out[j].at >= hash_expiry_hours

\* two handlers for one fingerprint are under way together: the first to
\* reach the check awaits get_sender_info, the other was found a duplicate
C35_Witness ==
    /\ pc = "returned" /\ lastCall # <<>> /\ lastCall[1].ret
    /\ sn.message_hash = lastCall[1].hash
    /\ Len(loop.waiting) = 1 /\ loop.waiting[1].pc = "mh_sender_info"
    /\ loop.waiting[1].sn.message_hash = sn.message_hash

-----------------------------------------------------------------------------
(* The monitor's own messages as inbound events.  The handler is registered
   for events.NewMessage without a direction (main.py 794), so a message the
   account sent arrives at message_handler like any other, in the chat it
   was sent to and with the account as its sender.  attempts holds the alerts
   sent, each with its text. *)

MaxAlerts == 3

TargetChat == [id |-> JoinedChannelId, title |-> <<"c","h","a","n">>]

RECURSIVE CommaJoin(_)
\* ", ".join(keywords)
CommaJoin(keywords) ==
    IF keywords = <<>> THEN <<>>
    ELSE IF Len(keywords) = 1 THEN keywords[1]
    ELSE keywords[1] \o <<",", " ">> \o CommaJoin(Tail(keywords))

\* lines 389-398: the notification names the keywords, the group and the time
\* and quotes the message; "*" stands for the heading line
Notification(keywords, chat_title, time, message_text) ==
    <<"*", "\n">> \o CommaJoin(keywords) \o <<"\n">> \o chat_title \o <<"\n">>
      \o str(time) \o <<"\n">> \o message_text

\* the chat in which a message sent to `to` appears
ChatOf(to) == IF to = StrForm(Me) THEN SelfChat ELSE TargetChat

EchoConfigs ==
    {[DefaultConfig EXCEPT !.keywords = <<Python>>, !.notification_target = t,
                           !.whitelist = w] :
        t \in {Me, AtChan}, w \in {<<>>, <<AliceGroup>>}}

EchoInit ==
    /\ file \in EchoConfigs
    /\ config = file
    /\ duplicate_detection_enabled = config.enabled
    /\ hash_expiry_hours = config.expiry_hours
    /\ include_sender_in_hash = config.include_sender
    /\ now = 0 /\ message_hashes = <<>> /\ bulk = [t \in Times |-> 0] /\ lastCall = <<>>
    /\ inp = [op |-> "none"] /\ out = <<>>
    /\ pc = "ready" /\ sn = NoLocals /\ attempts = <<>> /\ log = {}
    /\ LoopUnused

\* message_handler, lines 677-745, and handle_command, line 753, on a message
\* with text whose get_me succeeds; `resolved` is whether get_entity of the
\* target returned.  The alert is taken as delivered by the first send.
Handle(chat, message_text, sender_id, resolved, echo) ==
    LET target_here == /\ resolved /\ config.notification_target # Me
                       /\ chat.id = TargetChat.id
        found_keywords == check_keywords(message_text, config.keywords, config.case_sensitive)
        message_hash == generate_message_hash(message_text, sender_id, include_sender_in_hash)
        quiet == lastCall' = <<>> /\ UNCHANGED <<message_hashes, bulk, attempts>>
    IN /\ inp' = [op |-> "message", chat_id |-> chat.id, message_text |-> message_text,
                  sender_id |-> sender_id, target_here |-> target_here, echo |-> echo]
       /\ IF is_command_chat(chat.id, SelfId, config.notification_target, target_here)
            THEN /\ out' = Outcome(IF startswith(message_text, <<"/">>)
                                     THEN "command" ELSE "ignored")
                 /\ quiet
          ELSE IF ~ check_group_filters(chat.id, chat.title, config.whitelist, config.blacklist)
            THEN out' = Outcome("filtered") /\ quiet
          ELSE IF found_keywords.ret = <<>> THEN out' = Outcome("no keyword") /\ quiet
          ELSE /\ DedupCall(message_hash)
               /\ IF lastCall'[1].ret
                    THEN out' = Outcome("duplicate") /\ UNCHANGED attempts
                    ELSE /\ Len(attempts) < MaxAlerts
                         /\ out' = Outcome("notify")
                         /\ attempts' = Append(attempts,
                               [stage |-> "primary", what |-> "notification",
                                to |-> StrForm(config.notification_target), ok |-> TRUE,
                                text |-> Notification(found_keywords.ret, chat.title, now,
                                                      message_text)])
       /\ UNCHANGED <<now, attrVars, loop, cfgVars, pc, sn, log>>

\* a message of somebody else in a monitored group
External ==
    \E message_text \in {ILovePython, <<"h","i">>}, resolved \in BOOLEAN :
        Handle([id |-> 100, title |-> AliceGroup], message_text, <<8>>, resolved, FALSE)

\* an alert the monitor sent comes back as an event of its destination chat
Echo ==
    \E i \in 1..Len(attempts), resolved \in BOOLEAN :
        Handle(ChatOf(attempts[i].to), attempts[i].text, <<SelfId>>, resolved, TRUE)

EchoNext == External \/ Echo \/ DedupTick

SpecEcho == EchoInit /\ [][EchoNext]_vars

C37_Echo == inp.op = "message" /\ inp.echo

\* C37: an alert the monitor sent, coming back as an event of its destination
\* chat, produces no further alert and runs no command, also when the resolve
\* call that recognises the chat of the target fails for that event.
C37_NeverTriggersItself ==
    C37_Echo => out[1].outcome \notin {"notify", "command"}

\* the same, for the events whose chat is recognised as a command chat or is
\* kept out by the whitelist
C37_NoTriggerWhenRecognised ==
    (C37_Echo /\ (inp.chat_id = SelfId \/ inp.target_here \/ config.whitelist # <<>>))
        => out[1].outcome \notin {"notify", "command"}

-----------------------------------------------------------------------------
(* Mode saved_messages_only, under SpecNotify *)

\* C39: in mode saved_messages_only every attempt of the alert, primary or
\* fallback, addresses the self chat, whichever transport calls fail.
C39_OnlySelfAddressed ==
    sn.notification_mode = "saved_messages_only" =>
        \A i \in AlertIdx : attempts[i].to \in SelfForms

\* the same, as long as the copy to Saved Messages has not raised
C39_OnlySelfAddressedWhenSaved ==
    (/\ sn.notification_mode = "saved_messages_only"
     /\ \A i \in StageIdx("saved") : attempts[i].ok)
        => \A i \in AlertIdx : attempts[i].to \in SelfForms

-----------------------------------------------------------------------------
(* `/target set` and the channel bootstrap of the alerts that follow.  One
   dispatch at a time is followed until ensure_channel_access has returned;
   a command is handled between two dispatches or while a dispatch awaits a
   call of the bootstrap. *)

TargetSetCommands ==
    {<<"/","t","a","r","g","e","t"," ","s","e","t"," ","m","e">>,
     <<"/","t","a","r","g","e","t"," ","s","e","t"," ","@","c","h","a","n">>,
     <<"/","t","a","r","g","e","t"," ","s","e","t"," ","-","1","0","0","1">>,
     <<"/","t","a","r","g","e","t"," ","s","e","t"," ","c","h","a","n">>}

TargetInit ==
    /\ config \in {[DefaultConfig EXCEPT !.notification_target = t, !.needs_join = j,
                                         !.invite_hash = h] :
                      t \in {Me, AtChan}, j \in BOOLEAN, h \in {<<>>, InviteToken}}
    /\ file = config
    /\ pc = "idle" /\ sn = NoLocals /\ attempts = <<>> /\ log = {}
    /\ PureUnused /\ DedupUnused /\ AttrUnused /\ LoopUnused

\* main.py handle_command, lines 758-762, for a `/target set` command
TargetCommand ==
    /\ InBootstrap
    /\ \E message_text \in TargetSetCommands :
         /\ HandleCommandReload(message_text)
         /\ inp' = [op |-> "command", text |-> message_text, before |-> file,
                    during |-> pc]
         /\ out' = <<process_command(file, message_text).response>>
    /\ UNCHANGED <<pc, sn, attempts, log, loop, dedupVars, attrVars>>

\* ensure_channel_access has returned; the next alert is dispatched
NextAlert ==
    /\ ~ InBootstrap
    /\ pc' = "idle" /\ sn' = NoLocals /\ attempts' = <<>> /\ log' = {}
    /\ UNCHANGED <<cfgVars, pureVars, dedupVars, attrVars, loop>>

TargetNext ==
    \/ SendNotification \/ EcaJoin \/ EcaWelcome \/ EcaFallbackMsg
    \/ TargetCommand \/ NextAlert

SpecTarget == TargetInit /\ [][TargetNext]_vars

\* the last command was a `/target set X` that was confirmed
C40_Set ==
    /\ Commanded /\ Parts # <<>> /\ C17_Command = TargetCmd
    /\ Len(C17_Args) >= 2 /\ C17_Action = Set
    /\ Response.glyph = "check"

\* C40: after a confirmed `/target set X` the target in config.json stays X
\* across the dispatches that follow, until the next `/target set`, also when
\* the configuration still holds needs_join with an invite token.
C40_TargetKept == C40_Set => file.notification_target = C17_Args[2]

\* the same, for a command given when no join was pending and no dispatch
\* was waiting in the bootstrap
C40_TargetKeptWithoutPendingJoin ==
    (C40_Set /\ inp.during = "idle"
       /\ ~ (inp.before.needs_join /\ inp.before.invite_hash # <<>>))
        => file.notification_target = C17_Args[2]

=============================================================================
